---- MODULE Spec2Model ----
(***************************************************************************)
(* Model of sat_declaration_filler.py: the run() supervisor (prerequisite  *)
(* loading, the two-attempt loop, the phase sequence of each mode, the     *)
(* try/finally teardown, the SIGINT handler), login_sat's server-fault     *)
(* detection and the check_totals submission gate.                         *)
(*                                                                         *)
(* Amounts are fixed-point: an integer n stands for n / Scale pesos.       *)
(***************************************************************************)
EXTENDS Integers, Sequences, FiniteSets, TLC

\* ------------------------------------------------------------------ bounds
MaxMissing == 1            \* how many prerequisites may be missing at once
MaxPolls == 2              \* iterations of a polling loop that are modelled
MaxStrategies == 3         \* selectors listed for one key of the mapping
MaxCells == 3             \* cells of the sheet a formula reference can lead to
MaxRows == 3        \* rows of the table a CAPTURAR is looked for in
MaxLabels == 3             \* labels in the list given to fill_obligation_section

\* ------------------------------------------------------- program constants
Scale == 10                \* fixed-point factor: 1 peso = Scale units
TOLERANCE_PESOS == 1
RETRY_WAIT_SECONDS == 60
PHASE3_LOADING_MAX_WAIT_SEC == 90
RangeAttempts == 2         \* for attempt in range(2)
HttpErrorFloor == 400      \* response_status >= 400
SigintExitCode == 130      \* os._exit(130)

\* ------------------------------------------------------------------ values
None == << >>
Some(v) == << v >>
IsNone(o) == o = << >>
Get(o) == o[1]

Abs(x) == IF x < 0 THEN -x ELSE x
Min(a, b) == IF a < b THEN a ELSE b

Modes == {"normal", "test_login", "test_initial_form", "test_full", "test_phase3"}

Prereqs == {"config", "mapping", "workbook", "ids", "sheet",
            "db_connection_string", "fiel_certificate_base_path", "cer", "key"}

VARIABLES
    mode,        \* which of run()'s flows was requested
    missing,     \* the external prerequisites that are absent
    tolerance,   \* config.get("totals_tolerance_pesos", TOLERANCE_PESOS), in pesos
    pc,          \* position of the thread of control inside run()
    attempt,     \* loop variable of "for attempt in range(2)"
    pending,     \* what the try body produced while the finally block runs
    exitKind,    \* "running", "returned", "raised" (exception left run) or "killed"
    result,      \* run()'s return value, None until it returns
    exitCode,    \* process exit status set by os._exit, None otherwise
    outcome,     \* per finished attempt: "true", "false" or "exc"
    launches,    \* browsers launched
    sessions,    \* sessions fully opened (page created, _run_context set)
    sleeps,      \* cooling-off delays taken
    logouts,     \* calls of logout_sat
    ctxCloses,   \* calls of context.close()
    brCloses,    \* calls of browser.close()
    open,        \* the browser resources currently open
    run_context, \* the module global _run_context is set
    status,      \* HTTP status of the portal load in this attempt (None: no response)
    body,        \* what the last page-body read of login_sat saw
    site,        \* which check of login_sat made the last observation ("load", "poll", "after")
    polls,       \* iterations of the post-login poll done in this attempt
    checked,     \* check_totals has run in this attempt
    gate,        \* the last result of check_totals
    label_isr, label_iva,            \* label_map entries "ISR a cargo", "IVA a cargo"
    disp_isr, disp_iva, disp_total,  \* what the summary page displays
    clicked,     \* the submit control was clicked in this attempt
    submits,     \* clicks of the submit control over the whole run
    obligation,  \* result of open_obligation_isr in this attempt ("none": not called)
    waits,       \* iterations done of the wait loop the attempt is in
    ingresos,    \* the last run of the income comparison of fill_isr_ingresos_form
    resolve,     \* the call of _try_fill / _try_click under way
    draft,       \* the last call of dismiss_draft_if_present
    initial,     \* the call of fill_initial_form under way
    section,     \* the call of fill_obligation_section under way
    isr_form,    \* the last run of the head of fill_isr_ingresos_form
    dropdown,    \* the page's dropdown controls and the calls made on them
    files,       \* the e.firma file inputs of the login page
    capclick,    \* the last call of _click_capturar_next_to_label
    disclosure,  \* the last disclosure popup of fill_isr_ingresos_form
    postlogin,   \* the last run of login_sat from the post-login poll on
    cellres,     \* the resolution of a formula cell by _cell_display_value under way
    xlcalc       \* the call of _xlcalculator_evaluator and its builder thread

vars == << mode, missing, tolerance, pc, attempt, pending, exitKind, result, exitCode,
           outcome, launches, sessions, sleeps, logouts, ctxCloses, brCloses, open,
           run_context, status, body, site, polls, checked, gate,
           label_isr, label_iva, disp_isr, disp_iva, disp_total, clicked, submits,
           obligation, waits, ingresos, resolve,
           draft, initial, section, isr_form, dropdown, files,
           capclick, disclosure, postlogin, cellres, xlcalc >>

ctlVars == << pc, attempt, pending, exitKind, result, exitCode, outcome >>
resVars == << launches, sessions, sleeps, logouts, ctxCloses, brCloses, open, run_context >>
loginVars == << status, body, site, polls >>
gateVars == << checked, gate, label_isr, label_iva, disp_isr, disp_iva, disp_total >>
inputVars == << mode, missing, tolerance >>
sendVars == << clicked, submits >>
phaseVars == << obligation, waits >>
callVars == << draft, initial, section, isr_form, dropdown, files >>
unitVars == << capclick, disclosure, postlogin, cellres, xlcalc >>
harnessVars == << ingresos, resolve, callVars, unitVars >>

\* ---------------------------------------------------------- pure functions

\* _parse_currency on a label_map entry: None -> 0.0, a number -> itself
_parse_currency(val) == IF IsNone(val) THEN 0 ELSE Get(val)

\* check_totals._read_summary: no selector resolves or no digits -> 0.0;
\* otherwise the digits and dots of the displayed text (a sign is stripped)
_read_summary(disp) == IF IsNone(disp) THEN 0 ELSE Abs(Get(disp))

\* variant: the comparison excludes the boundary (abs(sat - excel) < tolerance)
WithinToleranceStrict(sat, excel, tol) == Abs(sat - excel) < tol * Scale

\* ok_isr / ok_iva / ok_total: abs(sat - excel) <= tolerance
WithinTolerance(sat, excel, tol) == Abs(sat - excel) <= tol * Scale

\* sat_total falls back to sat_isr + sat_iva when it reads 0.0 and one of them does not
SatTotal(raw_total, sat_isr, sat_iva) ==
    IF raw_total = 0 /\ (sat_isr # 0 \/ sat_iva # 0) THEN sat_isr + sat_iva ELSE raw_total

check_totals(l_isr, l_iva, d_isr, d_iva, d_total, tol) ==
    LET excel_isr == _parse_currency(l_isr)
        excel_iva == _parse_currency(l_iva)
        excel_total == excel_isr + excel_iva
        sat_isr == _read_summary(d_isr)
        sat_iva == _read_summary(d_iva)
        sat_total == SatTotal(_read_summary(d_total), sat_isr, sat_iva)
        ok_isr == WithinTolerance(sat_isr, excel_isr, tol)
        ok_iva == WithinTolerance(sat_iva, excel_iva, tol)
        ok_total == WithinTolerance(sat_total, excel_total, tol)
    IN  [ran |-> TRUE, ok |-> ok_isr /\ ok_iva /\ ok_total,
         ok_isr |-> ok_isr, ok_iva |-> ok_iva, ok_total |-> ok_total,
         excel_isr |-> excel_isr, excel_iva |-> excel_iva, excel_total |-> excel_total,
         sat_isr |-> sat_isr, sat_iva |-> sat_iva, sat_total |-> sat_total]

NoGate == [ran |-> FALSE, ok |-> FALSE, ok_isr |-> FALSE, ok_iva |-> FALSE, ok_total |-> FALSE,
           excel_isr |-> 0, excel_iva |-> 0, excel_total |-> 0,
           sat_isr |-> 0, sat_iva |-> 0, sat_total |-> 0]

\* Page bodies as login_sat's checks can tell them apart:
\*   "clean"      no error phrase
\*   "err500"     "500" / "internal server error" (seen by every check)
\*   "maint"      a phrase only _SAT_ERROR_PHRASES lists ("mantenimiento", ...)
\*   "unreadable" inner_text raised (timeout)
Bodies == {"clean", "err500", "maint", "unreadable"}
_SAT_ERROR_PHRASES == {"err500", "maint"}
PollErrorPhrases == {"err500"}

\* variant: only server errors (status >= 500) count as a failed load
_check_sat_page_error_5xx(response_status, b) ==
    IF ~IsNone(response_status) /\ Get(response_status) >= 500 THEN "http"
    ELSE IF b \in _SAT_ERROR_PHRASES THEN "phrase"
    ELSE "none"

\* _check_sat_page_error: the error to raise, or "none"
_check_sat_page_error(response_status, b) ==
    IF ~IsNone(response_status) /\ Get(response_status) >= HttpErrorFloor THEN "http"
    ELSE IF b \in _SAT_ERROR_PHRASES THEN "phrase"
    ELSE "none"

\* ------------------------------------------------------------ control flow

\* variant: get_efirma_from_db does not check that the key file exists
NeedsNoKeyFile(step) ==
    CASE step = "load_config" -> {"config"}
      [] step = "load_mapping" -> {"mapping"}
      [] step = "check_args" -> IF mode = "normal" THEN {"workbook", "ids"} ELSE {"workbook"}
      [] step = "read_impuestos" -> {"sheet"}
      [] step = "get_efirma_from_db" ->
             {"db_connection_string", "fiel_certificate_base_path", "cer"}
      [] step = "get_efirma_from_config" -> {"cer", "key"}
      [] OTHER -> {}

\* what each prerequisite step of run() needs, in the order the steps run
Needs(step) ==
    CASE step = "load_config" -> {"config"}
      [] step = "load_mapping" -> {"mapping"}
      [] step = "check_args" -> IF mode = "normal" THEN {"workbook", "ids"} ELSE {"workbook"}
      [] step = "read_impuestos" -> {"sheet"}
      [] step = "get_efirma_from_db" ->
             {"db_connection_string", "fiel_certificate_base_path", "cer", "key"}
      [] step = "get_efirma_from_config" -> {"cer", "key"}
      [] OTHER -> {}

PrereqSteps == {"load_config", "load_mapping", "check_args", "read_impuestos",
                "get_efirma_from_db", "get_efirma_from_config"}

\* the statement that follows a prerequisite step in the requested flow
AfterPrereq(step) ==
    CASE step = "load_config" -> "load_mapping"
      [] step = "load_mapping" -> "signal"
      [] step = "signal" ->
             IF mode \in {"test_login", "test_initial_form"} THEN "get_efirma_from_config"
             ELSE "check_args"
      [] step = "check_args" -> "read_impuestos"
      [] step = "read_impuestos" ->
             IF mode = "normal" THEN "get_efirma_from_db" ELSE "get_efirma_from_config"
      [] OTHER -> "launch"

\* variant: the full test flow goes on to the IVA section, the totals and the send
StepsTestSubmits ==
    LET login == << "login_goto", "login_e_firma", "login_credentials", "login_enviar",
                    "login_poll", "login_after" >>
        config == << "open_configuration_form", "dismiss_draft_if_present",
                     "fill_initial_form" >>
        detail == << "transition_initial_to_phase3", "loading_wait", "popup_cerrar",
                     "open_obligation_isr", "fill_isr_ingresos_form", "fill_isr_section" >>
    IN  CASE mode = "test_login" -> login \o << "inspect" >>
          [] mode = "test_initial_form" -> login \o config \o << "inspect" >>
          [] mode = "test_phase3" -> login \o config \o detail \o << "inspect" >>
          [] OTHER -> login \o config \o detail \o
                      << "fill_iva_section", "check_totals", "send_declaration", "post_send_wait" >>

\* the phase functions run() calls inside the try block, in order, per flow
Steps ==
    LET login == << "login_goto", "login_e_firma", "login_credentials", "login_enviar",
                    "login_poll", "login_after" >>
        config == << "open_configuration_form", "dismiss_draft_if_present",
                     "fill_initial_form" >>
        detail == << "transition_initial_to_phase3", "loading_wait", "popup_cerrar",
                     "open_obligation_isr", "fill_isr_ingresos_form", "fill_isr_section" >>
    IN  CASE mode = "test_login" -> login \o << "inspect" >>
          [] mode = "test_initial_form" -> login \o config \o << "inspect" >>
          [] mode \in {"test_full", "test_phase3"} -> login \o config \o detail \o << "inspect" >>
          [] OTHER -> login \o config \o detail \o
                      << "fill_iva_section", "check_totals", "send_declaration", "post_send_wait" >>

IndexOf(seq, x) == CHOOSE i \in 1..Len(seq) : seq[i] = x

\* variant: the income form is followed by the obligation selection again
NextPcReenter(p) ==
    IF p = "fill_isr_ingresos_form" THEN "open_obligation_isr"
    ELSE Steps[IndexOf(Steps, p) + 1]

\* the statement run() executes after step p returned normally
NextPc(p) == Steps[IndexOf(Steps, p) + 1]

\* phase functions that report failure by a return value the caller only logs,
\* and that can fail with an exception (an unguarded page call)
PlainSteps == {"login_credentials", "open_configuration_form", "fill_initial_form",
               "popup_cerrar", "fill_isr_ingresos_form", "fill_isr_section",
               "fill_iva_section"}

TeardownSteps == {"logout_sat", "context_close", "browser_close", "leave"}

\* PhaseState of the spec, as the position inside run()
Phase(p) ==
    CASE p \in {"login_goto", "login_e_firma", "login_credentials", "login_enviar",
                "login_poll", "login_after"} -> "LoggingIn"
      [] p \in {"open_configuration_form", "dismiss_draft_if_present", "fill_initial_form"}
             -> "ConfiguringPeriod"
      [] p \in {"transition_initial_to_phase3", "loading_wait", "popup_cerrar"}
             -> "TransitioningToDetail"
      [] p = "open_obligation_isr" -> "SelectingObligation"
      [] p = "fill_isr_ingresos_form" -> "FillingIncomeSection"
      [] p \in {"fill_isr_section", "fill_iva_section"} -> "FillingAdditionalSections"
      [] p = "check_totals" -> "VerifyingTotals"
      [] p \in {"send_declaration", "post_send_wait"} -> "Submitting"
      [] p \in TeardownSteps \/ p = "inspect" -> "Teardown"
      [] OTHER -> "LoggedOut"


\* ------------------------------------------------------------- input sets
Tolerances == {TOLERANCE_PESOS, 2}
Statuses == {None, Some(200), Some(404), Some(500)}
LabelValues == {None, Some(0), Some(3000), Some(5000)}
DispValues == {None, Some(0), Some(2995), Some(3000), Some(5000), Some(5010), Some(5030),
               Some(7995), Some(8000), Some(8030), Some(-5000)}
\* (ISR a cargo, IVA a cargo) of the workbooks a run is driven with
RunLabels == { << Some(5000), Some(3000) >>, << Some(12000), Some(3000) >>, << None, None >> }
\* (ISR, IVA, total) summaries a run finds on the page
RunDisplays == { << Some(5000), Some(2995), Some(7995) >>,
                 << Some(5000), Some(2995), None >>,
                 << Some(5030), Some(3000), Some(8030) >>,
                 << Some(5000), Some(3000), Some(0) >>,
                 << Some(12000), Some(3000), Some(15000) >>,
                 << None, None, None >> }

\* ------------------------------------ fill_isr_ingresos_form: sections 4, 5
\* amounts of the income comparison are integers in units of 1/IngresosScale peso
IngresosScale == Scale * 100

\* Python's round() and the "f" format: to the nearest multiple of unit, a tie
\* going to the even multiple (x \div unit rounds toward minus infinity)
RoundHalfEven(x, unit) ==
    LET q == x \div unit
        r == x % unit
    IN  IF 2 * r < unit THEN q
        ELSE IF 2 * r > unit THEN q + 1
        ELSE IF q % 2 = 0 THEN q ELSE q + 1

\* float(x) if x is not None else 0.0
OrZero(o) == IF IsNone(o) THEN 0 ELSE Get(o)

\* variant: the decrease branch also fires on a difference of exactly 1
need_ingresos_a_disminuir_incl(sat_total_cobrados, excel_total_cobrados) ==
    sat_total_cobrados - excel_total_cobrados >= 1 * IngresosScale

\* diferencia = sat_total_cobrados - excel_total_cobrados; diferencia > 1
need_ingresos_a_disminuir(sat_total_cobrados, excel_total_cobrados) ==
    sat_total_cobrados - excel_total_cobrados > 1 * IngresosScale

\* variant: the increase branch compares the absolute difference
need_ingresos_adicionales_abs(sat_total_cobrados, excel_total_cobrados) ==
    Abs(excel_total_cobrados - sat_total_cobrados) > 1 * IngresosScale

\* diferencia_adicionales = excel_total_cobrados - sat_total_cobrados; > 1
need_ingresos_adicionales(sat_total_cobrados, excel_total_cobrados) ==
    excel_total_cobrados - sat_total_cobrados > 1 * IngresosScale

\* importe_val = int(round(diferencia)); the amount str(importe_val) denotes
importe_val(diferencia) == RoundHalfEven(diferencia, IngresosScale) * IngresosScale

\* f"{diferencia_adicionales:,.2f}".replace(",", ""); the amount it denotes
diferencia_adic_str(diferencia_adicionales) ==
    RoundHalfEven(diferencia_adicionales, IngresosScale \div 100) * (IngresosScale \div 100)

NoIngresos == [ran |-> FALSE, expected |-> None, observed |-> None,
               need_dis |-> FALSE, need_adic |-> FALSE,
               importe_dis |-> None, importe_adic |-> None]

\* sections 4 and 5 of fill_isr_ingresos_form for the workbook's total
\* (expected) and the total the page shows (observed); filled_dis / filled_adic:
\* the popup opened and its Importe field took the text
ingresos_sections(expected, observed, filled_dis, filled_adic) ==
    LET sat == OrZero(observed)
        excel == OrZero(expected)
        dis == need_ingresos_a_disminuir(sat, excel)
        adic == need_ingresos_adicionales(sat, excel)
    IN  [ran |-> TRUE, expected |-> expected, observed |-> observed,
         need_dis |-> dis, need_adic |-> adic,
         importe_dis |-> IF dis /\ filled_dis THEN Some(importe_val(sat - excel)) ELSE None,
         importe_adic |-> IF adic /\ filled_adic
                          THEN Some(diferencia_adic_str(excel - sat)) ELSE None]

\* workbook totals and page totals the comparison is driven with
ExpectedTotals == {None, Some(0), Some(990000), Some(1000000), Some(1001000),
                   Some(1002000), Some(1008500), Some(1008504)}
ObservedTotals == {None, Some(0), Some(998999), Some(999000), Some(1000000), Some(1000400),
                   Some(1001000), Some(1001001), Some(1002000), Some(1008500),
                   Some(1008600), Some(1009500), Some(8178810)}

\* ------------------------------------------------- _try_fill and _try_click
\* what a selector of the list does when tried: the element is not there
\* (count() == 0: continue), a page call raises, or the control is acted on
Behaviours == {"absent", "raises", "acts"}

\* mapping.get(key): None (key not mapped) or a list of at most MaxStrategies selectors
SelectorLists ==
    {None} \cup { Some(l) : l \in UNION { [1..n -> Behaviours] : n \in 0..MaxStrategies } }

NoResolve == [fn |-> "none", selectors |-> None, i |-> 0,
              tried |-> << >>, acted |-> << >>, ret |-> "none"]

\* selectors = mapping.get(key); if not selectors: return False
resolve_call(fn, selectors) ==
    [fn |-> fn, selectors |-> selectors, i |-> 1, tried |-> << >>, acted |-> << >>,
     ret |-> IF IsNone(selectors) \/ Len(Get(selectors)) = 0 THEN "false" ELSE "none"]

\* variant: an exception of a page call leaves the function
try_selector_unguarded(r) ==
    LET l == Get(r.selectors)
    IN  IF r.i > Len(l) THEN [r EXCEPT !.ret = "false"]
        ELSE IF l[r.i] = "acts"
             THEN [r EXCEPT !.tried = Append(@, r.i), !.acted = Append(@, r.i), !.ret = "true"]
        ELSE IF l[r.i] = "raises"
             THEN [r EXCEPT !.tried = Append(@, r.i), !.ret = "raised"]
        ELSE [r EXCEPT !.tried = Append(@, r.i), !.i = @ + 1]

\* variant: the loop goes on after a selector succeeded
try_selector_all(r) ==
    LET l == Get(r.selectors)
    IN  IF r.i > Len(l)
        THEN [r EXCEPT !.ret = IF r.acted = << >> THEN "false" ELSE "true"]
        ELSE IF l[r.i] = "acts"
             THEN [r EXCEPT !.tried = Append(@, r.i), !.acted = Append(@, r.i), !.i = @ + 1]
        ELSE [r EXCEPT !.tried = Append(@, r.i), !.i = @ + 1]

\* one turn of "for sel in selectors: try: ... return True; except Exception:
\* continue", or "return False" after the list is exhausted
try_selector(r) ==
    LET l == Get(r.selectors)
    IN  IF r.i > Len(l) THEN [r EXCEPT !.ret = "false"]
        ELSE IF l[r.i] = "acts"
             THEN [r EXCEPT !.tried = Append(@, r.i), !.acted = Append(@, r.i), !.ret = "true"]
        ELSE [r EXCEPT !.tried = Append(@, r.i), !.i = @ + 1]

\* ------------------------------------------------ dismiss_draft_if_present
\* what a body read of the probe sees: a draft marker, no marker, or a timeout
DraftObservations == {"marker", "clean", "unreadable"}

\* the body reads of the probe loop, as many as its time budget allows
Probes == UNION { [1..n -> DraftObservations] : n \in 1..MaxPolls }

\* where the control a locator resolves to lies: no match, inside the draft's
\* own row, or elsewhere in the document
Places == {"absent", "row", "outside"}

\* the four ways the detour looks for the delete control, in the code's order:
\* mapping["_draft_trash"] (page.locator(sel).first), the fallback selectors
\* (page.locator(fallback_selector).first), the first button or link of the
\* container three levels above the list heading, the first button or link
\* with an icon of the container two levels above the heading
TrashLookups == [1..4 -> Places]

\* variant: the detour is entered whatever the probe saw
draft_found_always(obs) == TRUE

\* draft_found: some body read of the probe contained a draft marker
draft_found(obs) == \E k \in 1..Len(obs) : obs[k] = "marker"

\* iterations of the probe loop: up to the first marker, else the whole budget
draft_polls(obs) ==
    IF \E k \in 1..Len(obs) : obs[k] = "marker"
    THEN CHOOSE k \in 1..Len(obs) :
             obs[k] = "marker" /\ \A j \in 1..(k - 1) : obs[j] # "marker"
    ELSE Len(obs)

\* the control the detour clicks: the first lookup that resolves to one
trash_clicked(lookups) ==
    IF \A k \in 1..4 : lookups[k] = "absent" THEN "none"
    ELSE lookups[CHOOSE k \in 1..4 :
                     lookups[k] # "absent" /\ \A j \in 1..(k - 1) : lookups[j] = "absent"]

NoDraft == [ran |-> FALSE, obs |-> << >>, lookups |-> << >>, found |-> FALSE, polls |-> 0,
            trash |-> "none", confirm |-> FALSE, waits |-> 0, ret |-> "none"]

\* dismiss_draft_if_present for a probe that saw obs, a page whose delete
\* controls resolve as lookups, a confirmation popup that appears or not and a
\* "Sí" control that is clicked or not; fault: the page call that raised
\* ("probe": a wait of the probe, "detour": the wait after the delete click)
dismiss_draft(obs, lookups, popup, si, fault) ==
    LET base == [NoDraft EXCEPT !.ran = TRUE, !.obs = obs, !.lookups = lookups,
                                !.polls = draft_polls(obs)]
    IN  IF fault = "probe" THEN [base EXCEPT !.ret = "raised"]
        ELSE IF ~draft_found(obs) THEN [base EXCEPT !.ret = "false"]
        ELSE IF trash_clicked(lookups) = "none"
             THEN [base EXCEPT !.found = TRUE, !.ret = "false"]
        ELSE IF fault = "detour"
             THEN [base EXCEPT !.found = TRUE, !.trash = trash_clicked(lookups),
                               !.waits = 1, !.ret = "false"]
        ELSE IF ~popup
             THEN [base EXCEPT !.found = TRUE, !.trash = trash_clicked(lookups),
                               !.waits = 1, !.ret = "true"]
        ELSE [base EXCEPT !.found = TRUE, !.trash = trash_clicked(lookups),
                          !.confirm = si, !.waits = 2, !.ret = "true"]

\* ------------------------------------------------------- fill_initial_form
\* variant: the declaration type is filled before the other dropdowns
DropdownOrderTipoFirst == << "tipo", "ejercicio", "periodicidad", "periodo" >>

\* the dropdowns of the configuration form in the order the code fills them
DropdownOrder == << "ejercicio", "periodicidad", "periodo", "tipo" >>

\* the calls the code makes for one dropdown until one returns True: by label,
\* by the label's other spelling, by the mapping's selectors
TriesOf(d) ==
    CASE d = "ejercicio" -> << "label", "mapping" >>
      [] d = "periodicidad" -> << "label" >>
      [] OTHER -> << "label", "alt_label", "mapping" >>

\* "if year is not None:" / "if month is not None:" around the two fills
stage_skipped(d, year, month) ==
    \/ d = "ejercicio" /\ IsNone(year)
    \/ d = "periodo" /\ IsNone(month)

\* variant: the period is formatted without the test for None
periodo_str_unguarded(month) == IF IsNone(month) THEN "TypeError" ELSE "formatted"

\* periodo_str = f"{month:02d}" if month is not None else "N/A"
periodo_str(month) == IF IsNone(month) THEN "N/A" ELSE "formatted"

NoInitial == [on |-> FALSE, year |-> None, month |-> None, mapped |-> FALSE, stage |-> 0,
              attempts |-> << >>, fault |-> FALSE, ret |-> "none"]

\* the first statements of fill_initial_form: data.get("year"), data.get("month"),
\* periodo_str, the wait for a select (guarded), page_for_wait.wait_for_timeout(60)
initial_call(year, month, mapped, wait_raises) ==
    [NoInitial EXCEPT !.on = TRUE, !.year = year, !.month = month, !.mapped = mapped,
                      !.stage = 1, !.fault = wait_raises,
                      !.ret = IF periodo_str(month) = "TypeError" \/ wait_raises
                              THEN "raised" ELSE "none"]

\* the tries made for dropdown d when the k-th try returns oks[k]: one after
\* the other until one is True; the mapping try only if the key is mapped
RECURSIVE tries_made(_, _, _, _)
tries_made(d, oks, mapped, k) ==
    IF k > Len(TriesOf(d)) THEN << >>
    ELSE IF TriesOf(d)[k] = "mapping" /\ ~mapped THEN << >>
    ELSE IF oks[k] THEN << [d |-> d, try |-> TriesOf(d)[k], ok |-> TRUE] >>
    ELSE << [d |-> d, try |-> TriesOf(d)[k], ok |-> FALSE] >> \o tries_made(d, oks, mapped, k + 1)

\* one dropdown of the form: skipped, or tried and followed by
\* page_for_wait.wait_for_timeout; after the last one the function returns
initial_stage(r, oks, wait_raises) ==
    IF r.stage > Len(DropdownOrder) THEN [r EXCEPT !.ret = "returned"]
    ELSE LET d == DropdownOrder[r.stage]
         IN  IF stage_skipped(d, r.year, r.month) THEN [r EXCEPT !.stage = @ + 1]
             ELSE [r EXCEPT !.attempts = @ \o tries_made(d, oks, r.mapped, 1),
                            !.stage = @ + 1,
                            !.fault = wait_raises,
                            !.ret = IF wait_raises THEN "raised" ELSE "none"]

\* ------------------------------------------------- fill_obligation_section
\* label_map.get(label) for the labels of the list: None or a float
SectionValues == {None, Some(0), Some(5000), Some(0 - 2000)}

NoSection == [on |-> FALSE, values |-> << >>, i |-> 0, attempted |-> << >>,
              filled |-> << >>, ret |-> "none"]

\* variant: only an absent value is skipped
section_step_zero_fill(r, wait_raises) ==
    IF r.i > Len(r.values) THEN [r EXCEPT !.ret = "returned"]
    ELSE LET value == r.values[r.i]
         IN  IF IsNone(value) THEN [r EXCEPT !.i = @ + 1]
             ELSE [r EXCEPT !.attempted = Append(@, r.i), !.filled = Append(@, Get(value)),
                            !.i = @ + 1,
                            !.ret = IF wait_raises THEN "raised" ELSE "none"]

\* one turn of "for label in labels": value = label_map.get(label); continue
\* if it is None or the float 0.0; else _try_fill(...) and
\* page.wait_for_timeout(200); after the last label the function returns
section_step(r, wait_raises) ==
    IF r.i > Len(r.values) THEN [r EXCEPT !.ret = "returned"]
    ELSE LET value == r.values[r.i]
         IN  IF IsNone(value) THEN [r EXCEPT !.i = @ + 1]
             ELSE IF Get(value) = 0 THEN [r EXCEPT !.i = @ + 1]
             ELSE [r EXCEPT !.attempted = Append(@, r.i), !.filled = Append(@, Get(value)),
                            !.i = @ + 1,
                            !.ret = IF wait_raises THEN "raised" ELSE "none"]

\* ----------------------------- fill_isr_ingresos_form: head and section 3
\* label_map after read_impuestos for "Base gravable del pago provisional":
\* a value resolved through a formula reference that is 0.0 is replaced by a
\* nonzero "Ingresos cobrados y amparados por factura del mes"
read_base_gravable(cell, from_formula, ingresos_cobrados) ==
    IF /\ from_formula /\ cell = Some(0)
       /\ ~IsNone(ingresos_cobrados) /\ Get(ingresos_cobrados) # 0
    THEN ingresos_cobrados
    ELSE cell

\* variant: a label whose value is 0.0 counts as missing ("_v1 or _v2 or ...")
used_key_nonzero(v) ==
    IF \A k \in 1..4 : IsNone(v[k]) \/ v[k] = Some(0) THEN 0
    ELSE CHOOSE k \in 1..4 :
             /\ ~IsNone(v[k]) /\ v[k] # Some(0)
             /\ \A j \in 1..(k - 1) : IsNone(v[j]) \/ v[j] = Some(0)

\* used_key: the first of excel_label_1 .. excel_label_4 whose value is not
\* None (0: none of them has a value)
used_key(v) ==
    IF \A k \in 1..4 : IsNone(v[k]) THEN 0
    ELSE CHOOSE k \in 1..4 : ~IsNone(v[k]) /\ \A j \in 1..(k - 1) : IsNone(v[j])

\* excel_total_cobrados = _parse_currency(excel_total_cobrados_raw)
excel_total_cobrados(v) == IF used_key(v) = 0 THEN _parse_currency(None)
                           ELSE _parse_currency(v[used_key(v)])

\* descuentos_copropiedad = label_map.get("Descuentos ... copropiedad"), 0 if None
descuentos_copropiedad(label_value) == IF IsNone(label_value) THEN 0 ELSE Get(label_value)

NoIsrForm == [ran |-> FALSE, cells |-> << >>, from_formula |-> FALSE, label_map |-> << >>,
              used_key |-> 0, expected |-> 0, descuentos_label |-> None,
              popup_opened |-> FALSE, descuentos_filled |-> None]

\* the head of fill_isr_ingresos_form and its section 3: cells are the sheet's
\* values of the four labels of the chain, capturar / filled say whether the
\* Descuentos popup opened and whether its text box took the value
isr_form_head(cells, from_formula, descuentos_label, capturar, filled) ==
    LET v == [cells EXCEPT ![1] = read_base_gravable(cells[1], from_formula, cells[2])]
    IN  [ran |-> TRUE, cells |-> cells, from_formula |-> from_formula, label_map |-> v,
         used_key |-> used_key(v), expected |-> excel_total_cobrados(v),
         descuentos_label |-> descuentos_label,
         popup_opened |-> capturar,
         descuentos_filled |-> IF capturar /\ filled
                               THEN Some(descuentos_copropiedad(descuentos_label)) ELSE None]

\* sheet values of the four labels of the chain, in the chain's order
ChainCells == { << a, b, c, d >> : a \in {None, Some(0), Some(1000000)},
                                   b \in {None, Some(0), Some(1001500)},
                                   c \in {None, Some(1008500)},
                                   d \in {None, Some(990000)} }
DescuentosLabels == {None, Some(0), Some(1500000)}
IsrObserved == {None, Some(1000000), Some(1008500)}

\* ------------------------------------------- _fill_select_next_to_label
\* Texts are sequences of characters, so that the three ways the primitive
\* matches an option (underlying value, exact label, text containing the
\* value whatever the case) stay different relations.
Lower(ch) == IF ch = "N" THEN "n" ELSE IF ch = "S" THEN "s" ELSE ch

lower_text(t) == [i \in 1..Len(t) |-> Lower(t[i])]

\* re.compile(re.escape(value_str), re.I) searched in the option's text.
has_text(text, v) ==
    \E i \in 0..(Len(text) - Len(v)) :
        SubSeq(lower_text(text), i + 1, i + Len(v)) = lower_text(v)

Opt(v, l) == [value |-> v, label |-> l]

OptionLists ==
    { << Opt(<<"1">>, <<"N","o">>), Opt(<<"2">>, <<"S","i">>) >>,
      << Opt(<<"N","o">>, <<"N","o">>), Opt(<<"S","i">>, <<"S","i">>) >>,
      << Opt(<<"x">>, <<"N","o","r">>), Opt(<<"N","o">>, <<"N","o">>) >>,
      << Opt(<<"x">>, <<"N","o","r">>), Opt(<<"2">>, <<"N","o">>) >> }

ValueStrs == { <<"N","o">>, <<"n","o">> }

FirstOf(S) == IF S = {} THEN 0 ELSE CHOOSE i \in S : \A j \in S : i <= j

\* dropdown.locator("option[value=...]").first; 0 when the count is 0.
opt_by_value(options, v) ==
    FirstOf({i \in DOMAIN options : options[i].value = v})

\* The option select_option(label=...) picks: the label equals the text.
opt_by_label(options, v) ==
    FirstOf({i \in DOMAIN options : options[i].label = v})

\* dropdown.locator("option").filter(has_text=...).first
opt_by_text(options, v) ==
    FirstOf({i \in DOMAIN options : has_text(options[i].label, v)})

option_to_click_text_first(options, v) ==
    IF opt_by_text(options, v) # 0 THEN opt_by_text(options, v)
    ELSE opt_by_value(options, v)

\* The option the open-and-click strategy goes for: by value when one has
\* it, otherwise the first whose text contains the value.
option_to_click(options, v) ==
    IF opt_by_value(options, v) # 0 THEN opt_by_value(options, v)
    ELSE opt_by_text(options, v)

\* A control of the page: its options, the selected one, and how it answers
\* (visible; native: select_option works on it; opens: the click that opens
\* it and the two pauses around it go through; clickable: an option can be
\* clicked; wakes: once opened, select_option works; awake: it was opened).
Controls ==
    [options : OptionLists, selected : 1..2, visible : BOOLEAN,
     native : BOOLEAN, opens : BOOLEAN, clickable : BOOLEAN,
     wakes : BOOLEAN, awake : {FALSE}]

OtherControl ==
    [options |-> << Opt(<<"N","o">>, <<"N","o">>), Opt(<<"S","i">>, <<"S","i">>) >>,
     selected |-> 2, visible |-> TRUE, native |-> TRUE, opens |-> TRUE,
     clickable |-> TRUE, wakes |-> FALSE, awake |-> FALSE]

selectable(c) == c.native \/ c.awake

StepOf(s, ok) == [step |-> s, ok |-> ok]

\* The tail of the open-and-click strategy, entered when option.click
\* raised: select by value, then select by label, whose failure reaches the
\* outer handler.
retry_select(c, v, trace) ==
    LET t1 == Append(trace, StepOf("select_value", selectable(c) /\ opt_by_value(c.options, v) # 0))
        t2 == Append(t1, StepOf("select_label", selectable(c) /\ opt_by_label(c.options, v) # 0))
    IN  IF selectable(c) /\ opt_by_value(c.options, v) # 0
        THEN [trace |-> t1, ret |-> TRUE,
              control |-> [c EXCEPT !.selected = opt_by_value(c.options, v)]]
        ELSE IF selectable(c) /\ opt_by_label(c.options, v) # 0
        THEN [trace |-> t2, ret |-> TRUE,
              control |-> [c EXCEPT !.selected = opt_by_label(c.options, v)]]
        ELSE [trace |-> t2, ret |-> FALSE, control |-> c]

\* The open-and-click strategy from dropdown.click on: a failure to open
\* the control or to find the option goes straight to the outer handler.
open_and_click(c, v, trace) ==
    LET opened == [c EXCEPT !.awake = c.awake \/ c.wakes]
        o      == option_to_click(c.options, v)
        t1     == Append(trace, StepOf("open", c.opens))
        t2     == Append(t1, StepOf("find_option", o # 0))
        t3     == Append(t2, StepOf("click_option", c.clickable))
    IN  IF ~c.opens THEN [trace |-> t1, ret |-> FALSE, control |-> c]
        ELSE IF o = 0 THEN [trace |-> t2, ret |-> FALSE, control |-> opened]
        ELSE IF c.clickable
        THEN [trace |-> t3, ret |-> TRUE,
              control |-> [opened EXCEPT !.selected = o]]
        ELSE retry_select(opened, v, t3)

do_press_dropdown_then_click_option(c, v) ==
    LET t0 == << StepOf("visible", c.visible) >>
        t1 == Append(t0, StepOf("select_value", selectable(c) /\ opt_by_value(c.options, v) # 0))
        t2 == Append(t1, StepOf("select_label", selectable(c) /\ opt_by_label(c.options, v) # 0))
    IN  IF ~c.visible THEN [trace |-> t0, ret |-> FALSE, control |-> c]
        ELSE IF selectable(c) /\ opt_by_value(c.options, v) # 0
        THEN [trace |-> t1, ret |-> TRUE,
              control |-> [c EXCEPT !.selected = opt_by_value(c.options, v)]]
        ELSE IF selectable(c) /\ opt_by_label(c.options, v) # 0
        THEN [trace |-> t2, ret |-> TRUE,
              control |-> [c EXCEPT !.selected = opt_by_label(c.options, v)]]
        ELSE open_and_click(c, v, t2)

\* Locating the dropdown: the mapped selector when it resolves to a visible
\* control, otherwise the control found from the label; 0 when neither.
resolve_dropdown(controls, mapped, labelled) ==
    IF mapped # 0 /\ controls[mapped].visible THEN mapped ELSE labelled

NoDropdown ==
    [calls |-> 0, value_str |-> << >>, mapped |-> 0, labelled |-> 0,
     initial |-> << >>, controls |-> << >>, resolved |-> 0,
     trace |-> << >>, rets |-> << >>]

fill_select_next_to_label(r, controls, v, mapped, labelled) ==
    LET k   == resolve_dropdown(controls, mapped, labelled)
        out == do_press_dropdown_then_click_option(controls[k], v)
    IN  IF k = 0
        THEN [r EXCEPT !.calls = @ + 1, !.value_str = v, !.mapped = mapped,
                       !.labelled = labelled, !.controls = controls,
                       !.resolved = 0, !.trace = << >>,
                       !.rets = Append(@, FALSE)]
        ELSE [r EXCEPT !.calls = @ + 1, !.value_str = v, !.mapped = mapped,
                       !.labelled = labelled,
                       !.controls = [controls EXCEPT ![k] = out.control],
                       !.resolved = k, !.trace = out.trace,
                       !.rets = Append(@, out.ret)]

\* ------------------------------------- the two file inputs of the e.firma form
\* What a selector of the mapping is to a page whose file inputs carry no
\* attribute that tells them apart: the literal "input[type='file']" that
\* _try_fill treats by position, another selector that matches every file
\* input, or one that matches nothing.
FileSelectorKinds == {"literal", "matches_all", "nomatch"}

FileSelectorLists ==
    UNION {[1..n -> FileSelectorKinds] : n \in 0..MaxStrategies}

\* _try_fill(..., is_file=True) from selector i on: the input (1 = first in
\* DOM order, 2 = second) the file was set on, 0 when every selector failed.
RECURSIVE try_fill_file(_, _, _, _, _)
try_fill_file(key, sels, i, n, visible) ==
    IF i > Len(sels) THEN 0
    ELSE IF sels[i] = "literal"
    THEN IF key = "key" /\ n < 2 THEN try_fill_file(key, sels, i + 1, n, visible)
         ELSE IF key = "cer" /\ n >= 1 THEN 1
         ELSE IF key = "key" THEN 2
         ELSE try_fill_file(key, sels, i + 1, n, visible)
    ELSE IF sels[i] = "matches_all" /\ n >= 1 /\ visible THEN 1
    ELSE try_fill_file(key, sels, i + 1, n, visible)

Assigned(file, input) == [file |-> file, input |-> input]

NoFiles ==
    [ran |-> FALSE, n |-> 0, visible |-> FALSE, cer_sels |-> << >>,
     key_sels |-> << >>, cer_input_ok |-> FALSE, key_input_ok |-> FALSE,
     fallback |-> FALSE, assigned |-> << >>]

\* login_sat from the .cer fill to the ordinal fallback.
login_files(n, visible, cer_sels, key_sels) ==
    LET cer == try_fill_file("cer", cer_sels, 1, n, visible)
        key == try_fill_file("key", key_sels, 1, n, visible)
        a1  == IF cer # 0 THEN << Assigned("cer", cer) >> ELSE << >>
        a2  == IF key # 0 THEN Append(a1, Assigned("key", key)) ELSE a1
        fb  == cer = 0 \/ key = 0
        a3  == IF fb /\ n >= 2
               THEN a2 \o << Assigned("cer", 1), Assigned("key", 2) >>
               ELSE IF fb /\ n = 1 THEN Append(a2, Assigned("cer", 1))
               ELSE a2
    IN  [ran |-> TRUE, n |-> n, visible |-> visible, cer_sels |-> cer_sels,
         key_sels |-> key_sels, cer_input_ok |-> cer # 0,
         key_input_ok |-> key # 0, fallback |-> fb, assigned |-> a3]

\* ------------------------------------------ _click_capturar_next_to_label
\* A row of the form as the function can tell it: its text contains the label
\* substring, its text contains the question mark-up, and the CAPTURAR
\* controls it holds.
CapRows == [label : BOOLEAN, question : BOOLEAN, caps : 0..2]

CapPages == UNION {[1..n -> CapRows] : n \in 1..MaxRows}

\* get_by_text(label_substring): the rows whose text matches, in DOM order
label_rows(rows) == SelectSeq([i \in DOMAIN rows |-> i], LAMBDA i : rows[i].label)

\* The CAPTURAR controls inside a container, in DOM order, each named by its
\* row. "(ancestor::*)[i]" counts the ancestors in document order, from the
\* root inwards: level 1 stands for the ancestors that hold the whole table,
\* level 2 for those that hold the row of the label only.
RECURSIVE caps_of_rows(_, _)
caps_of_rows(rows, i) ==
    IF i > Len(rows) THEN << >>
    ELSE [k \in 1..rows[i].caps |-> i] \o caps_of_rows(rows, i + 1)

container_caps(rows, at, level) ==
    IF level = 1 THEN caps_of_rows(rows, 1) ELSE [k \in 1..rows[at].caps |-> at]

\* the row test of the branch for several CAPTURARs
same_row_not_question(row) == row.label /\ ~row.question

\* The CAPTURAR chosen in a container: the only one; with several, the first
\* whose row passes the test; 0 when there is none to choose.
choose_capturar(rows, caps) ==
    IF Len(caps) = 0 THEN 0
    ELSE IF Len(caps) = 1 THEN caps[1]
    ELSE LET ok == SelectSeq(caps, LAMBDA r : same_row_not_question(rows[r]))
         IN  IF Len(ok) = 0 THEN 0 ELSE ok[1]

NoCapturar ==
    [ran |-> FALSE, rows |-> << >>, occurrence |-> 0, label_row |-> 0,
     level |-> 0, several |-> FALSE, clicked_row |-> 0, ret |-> FALSE]

\* The walk over the ancestors of the label; clickable: the chosen controls
\* become visible and take the click (otherwise every level fails).
click_capturar_next_to_label(rows, occurrence, clickable) ==
    LET found == label_rows(rows)
        at    == IF Len(found) <= occurrence THEN 0 ELSE found[occurrence + 1]
        c1    == IF at = 0 THEN 0 ELSE choose_capturar(rows, container_caps(rows, at, 1))
        c2    == IF at = 0 THEN 0 ELSE choose_capturar(rows, container_caps(rows, at, 2))
        level == IF ~clickable THEN 0 ELSE IF c1 # 0 THEN 1 ELSE IF c2 # 0 THEN 2 ELSE 0
        row   == IF level = 1 THEN c1 ELSE IF level = 2 THEN c2 ELSE 0
    IN  [ran |-> TRUE, rows |-> rows, occurrence |-> occurrence, label_row |-> at,
         level |-> level,
         several |-> level # 0 /\ Len(container_caps(rows, at, level)) > 1,
         clicked_row |-> row, ret |-> row # 0]


\* ------------------------------------------- disclosure popups (GUARDAR)
\* what the page answers while a popup is filled: whether CAPTURAR and
\* AGREGAR can be clicked, which lookups of the Concepto select and of the
\* Importe input succeed, and which buttons can be clicked afterwards
PopupPages ==
    [capturar : BOOLEAN, agregar : BOOLEAN,
     concepto_label : BOOLEAN, concepto_select : BOOLEAN,
     importe_row : BOOLEAN, importe_label : BOOLEAN, importe_any : BOOLEAN,
     guardar : BOOLEAN, aceptar : BOOLEAN, cerrar : BOOLEAN]

NoPopup ==
    [ran |-> FALSE, kind |-> "none", capturar |-> FALSE, agregar |-> FALSE,
     concepto |-> "none", importe |-> "none", guardar |-> "skipped",
     aceptar |-> FALSE, cerrar |-> FALSE]

\* concepto_ok: the select next to the "Concepto" label, else the first select
concepto_via(pg) ==
    IF pg.concepto_label THEN "label"
    ELSE IF pg.concepto_select THEN "first_select" ELSE "none"

\* importe_ok of the decrease popup: strategy A (row of the first select),
\* then the "Importe" label, then any enabled input of the dialog
importe_via_disminuir(pg) ==
    IF pg.importe_row THEN "same_row"
    ELSE IF pg.importe_label THEN "label"
    ELSE IF pg.importe_any THEN "any_input" ELSE "none"

\* the increase popup fills page.get_by_label("Importe") only
importe_via_adicionales(pg) == IF pg.importe_label THEN "label" ELSE "none"

\* "Ingresos a disminuir": GUARDAR is inside "if concepto_ok and importe_ok"
ingresos_a_disminuir_popup(pg) ==
    IF ~pg.capturar THEN [NoPopup EXCEPT !.ran = TRUE, !.kind = "disminuir"]
    ELSE LET concepto == concepto_via(pg)
             importe  == importe_via_disminuir(pg)
             both     == concepto # "none" /\ importe # "none"
             saved    == both /\ pg.guardar
         IN  [ran |-> TRUE, kind |-> "disminuir", capturar |-> TRUE,
              agregar |-> pg.agregar, concepto |-> concepto, importe |-> importe,
              guardar |-> IF ~both THEN "skipped"
                          ELSE IF pg.guardar THEN "clicked" ELSE "failed",
              aceptar |-> saved /\ pg.aceptar,
              cerrar |-> saved /\ pg.cerrar]

\* "Ingresos adicionales": the failures of the Concepto and Importe steps are
\* swallowed and GUARDAR is clicked next; with "_popup_guardar" in the mapping
\* a failed click is swallowed too, otherwise it ends the popup handling
ingresos_adicionales_popup(pg, mapped) ==
    IF ~pg.capturar THEN [NoPopup EXCEPT !.ran = TRUE, !.kind = "adicionales"]
    ELSE [ran |-> TRUE, kind |-> "adicionales", capturar |-> TRUE,
          agregar |-> pg.agregar, concepto |-> concepto_via(pg),
          importe |-> importe_via_adicionales(pg),
          guardar |-> IF pg.guardar THEN "clicked" ELSE "failed",
          aceptar |-> FALSE,
          cerrar |-> (pg.guardar \/ mapped) /\ pg.cerrar]

\* ------------------------------------------------ post-login poll of login_sat
\* position in the tail of login_sat (after Enviar), the number of poll
\* iterations done, where the authenticated URL was observed, the body text
\* of the last poll iteration, whether a landing marker became visible, and
\* the body text read by the final _check_sat_page_error
NoPostLogin ==
    [pc |-> "idle", polls |-> 0, seen |-> "none", last |-> "none",
     marker |-> FALSE, body |-> "none"]

\* while time.perf_counter() < t_end: one iteration, or the budget's end
post_login_poll(pl, ev) ==
    CASE ev = "wait_raises" -> [pl EXCEPT !.pc = "raised"]
      [] ev = "url"         -> [pl EXCEPT !.pc = "wait_for_url", !.seen = "poll"]
      [] ev = "t_end"       -> [pl EXCEPT !.pc = "wait_for_url"]
      [] OTHER              ->
            [pl EXCEPT !.polls = @ + 1, !.last = ev,
                       !.pc = IF ev \in PollErrorPhrases THEN "raised" ELSE "poll"]

\* page.wait_for_url(...) and the waits for a landing marker: every failure
\* is swallowed
post_login_settle(pl, reached, marker) ==
    [pl EXCEPT !.pc = "check",
               !.seen = IF pl.seen = "none" /\ reached THEN "wait_for_url" ELSE pl.seen,
               !.marker = marker]

\* err = _check_sat_page_error(page); if err: raise RuntimeError(err)
post_login_check(pl, b) ==
    [pl EXCEPT !.body = b,
               !.pc = IF _check_sat_page_error(None, b) # "none"
                      THEN "raised" ELSE "returned"]

\* --------------------------------------- read_impuestos._cell_display_value
\* a cell of the Impuestos sheet as the two workbooks show it: "cached" has a
\* value in the data_only workbook, "number" a numeric literal in the formula
\* workbook, "ref" a simple reference (=F8, =+E8) to the cell "to", and
\* "other" is empty or holds a formula _parse_cell_ref does not accept
SheetCells ==
    [kind : {"cached"}, val : {7 * Scale}, to : {0}]
        \cup [kind : {"number"}, val : {3 * Scale}, to : {0}]
        \cup [kind : {"other"}, val : {0}, to : {0}]
        \cup [kind : {"ref"}, val : {0}, to : 1..MaxCells]
Sheets == [1..MaxCells -> SheetCells]

\* depth at which Python raises RecursionError (1000 frames in CPython),
\* kept above every chain the sheets above can hold
RecursionLimit == MaxCells + 3

NoCellRes ==
    [on |-> FALSE, sheet |-> << >>, start |-> 0, cur |-> 0, visited |-> {},
     reads |-> [c \in 1..MaxCells |-> 0], depth |-> 0, val |-> << >>, done |-> "no"]

\* variant: the visited set is never consulted
seen_before_never(key, visited) == FALSE

\* if key in visited: return 0.0
seen_before(key, visited) == key \in visited

\* one call of _cell_display_value(ws_data, ws_formula, r, c, visited); the
\* set made by "visited or set()" in the outermost call is the one every
\* nested call receives, since it is non-empty by then
cell_display_value_call(cr) ==
    LET cell == cr.sheet[cr.cur] IN
    IF cr.depth >= RecursionLimit
    THEN [cr EXCEPT !.done = "RecursionError"]
    ELSE IF seen_before(cr.cur, cr.visited)
    THEN [cr EXCEPT !.val = << 0 >>, !.done = "returned", !.depth = @ + 1]
    ELSE LET seen == [cr EXCEPT !.visited = @ \cup {cr.cur},
                                !.reads[cr.cur] = @ + 1,
                                !.depth = @ + 1]
         IN  CASE cell.kind \in {"cached", "number"} ->
                      [seen EXCEPT !.val = << cell.val >>, !.done = "returned"]
               [] cell.kind = "ref" -> [seen EXCEPT !.cur = cell.to]
               [] OTHER -> [seen EXCEPT !.val = << 0 >>, !.done = "returned"]

\* ------------------------------------------------- _xlcalculator_evaluator
\* main: position of the caller in _xlcalculator_evaluator; thr: position of
\* the daemon thread that runs _build; result, err: the two lists they share;
\* ret: the returned pair; import_failed: the global _XLCALC_IMPORT_FAILED;
\* cells: the formula cells read_impuestos has left for the evaluator, used:
\* how many of them it has passed to _evaluate_cell
NoXlcalc ==
    [main |-> "idle", thr |-> "unborn", result |-> << >>, err |-> << >>,
     ret |-> << >>, import_failed |-> "None", cells |-> 0, used |-> 0]

\* values _XLCALC_IMPORT_FAILED can hold when the function is entered
ImportFailedBefore(installed) ==
    IF installed THEN {"None", "False"} ELSE {"None", "True"}

\* from xlcalculator import ...; the two "if _XLCALC_IMPORT_FAILED is None"
xlcalc_import(x, installed, before) ==
    IF installed
    THEN [x EXCEPT !.main = "start",
                   !.import_failed = IF before = "None" THEN "False" ELSE before]
    ELSE [x EXCEPT !.main = "returned", !.ret = << "None", "not installed" >>,
                   !.import_failed = IF before = "None" THEN "True" ELSE before]

\* variant: the thread counts as finished once join has returned
is_alive_never(thr) == FALSE

\* t.is_alive()
is_alive(thr) == thr \notin {"unborn", "dead"}

\* the statements after t.join(timeout=_XLCALC_TIMEOUT_SEC)
xlcalc_after_join(x) ==
    [x EXCEPT !.main = "returned",
              !.ret = IF is_alive(x.thr) THEN << "None", "timeout" >>
                      ELSE IF x.err # << >> THEN << "None", x.err[1] >>
                      ELSE IF x.result # << >> THEN << x.result[1], "None" >>
                      ELSE << "None", "unknown" >>]

\* one step of _build: read_and_parse_archive, then Evaluator(model) and
\* result.append, or err.append in "except Exception"; a BaseException ends
\* the thread with both lists empty
build_step(x, how) ==
    CASE x.thr = "compile" /\ how = "ok" -> [x EXCEPT !.thr = "evaluator"]
      [] x.thr = "evaluator" /\ how = "ok" ->
            [x EXCEPT !.thr = "exiting", !.result = Append(@, "evaluator")]
      [] how = "Exception" ->
            [x EXCEPT !.thr = "exiting", !.err = Append(@, "error")]
      [] OTHER -> [x EXCEPT !.thr = "exiting"]

\* read_impuestos after the call: "elif evaluator is not None" guards the
\* loop that passes the evaluator to _evaluate_cell
evaluator_usable(x) == x.main = "returned" /\ x.ret[1] # "None" /\ x.used < x.cells

\* ------------------------------------------------------------------- Init
InitRun ==
    /\ pc = "load_config" /\ attempt = 0 /\ pending = "none"
    /\ exitKind = "running" /\ result = None /\ exitCode = None /\ outcome = << >>
    /\ launches = 0 /\ sessions = 0 /\ sleeps = 0
    /\ logouts = 0 /\ ctxCloses = 0 /\ brCloses = 0
    /\ open = {} /\ run_context = FALSE
    /\ status = None /\ body = "clean" /\ site = "none" /\ polls = 0
    /\ checked = FALSE /\ gate = NoGate
    /\ label_isr = None /\ label_iva = None
    /\ disp_isr = None /\ disp_iva = None /\ disp_total = None
    /\ clicked = FALSE /\ submits = 0
    /\ obligation = "none" /\ waits = 0
    /\ ingresos = NoIngresos /\ resolve = NoResolve
    /\ draft = NoDraft /\ initial = NoInitial /\ section = NoSection
    /\ isr_form = NoIsrForm /\ dropdown = NoDropdown /\ files = NoFiles
    /\ capclick = NoCapturar /\ disclosure = NoPopup /\ postlogin = NoPostLogin
    /\ cellres = NoCellRes /\ xlcalc = NoXlcalc

Init ==
    /\ mode \in Modes
    /\ missing \in { m \in SUBSET Prereqs : Cardinality(m) <= MaxMissing }
    /\ tolerance \in Tolerances
    /\ InitRun

\* --------------------------------------------------- leaving the try body
\* an exception inside the try block: the finally block runs next
Raise == pending' = "exc" /\ pc' = "logout_sat"
\* "return v" inside the try block: the finally block runs first
Return(v) == pending' = v /\ pc' = "logout_sat"
\* run() is left by an exception no handler of run() catches
Escape == exitKind' = "raised" /\ pc' = "done"
\* run() returns v
Finish(v) == exitKind' = "returned" /\ result' = Some(v) /\ pc' = "done"

Running == exitKind = "running"

\* ------------------------------------------------- prerequisites of run()
Prereq(step) ==
    /\ Running /\ pc = step
    /\ IF Needs(step) \cap missing # {}
       THEN Escape
       ELSE pc' = AfterPrereq(step) /\ UNCHANGED exitKind
    /\ UNCHANGED << attempt, pending, result, exitCode, outcome >>
    /\ UNCHANGED << resVars, loginVars, inputVars, harnessVars, sendVars, phaseVars >>

load_config == Prereq("load_config") /\ UNCHANGED gateVars

load_mapping == Prereq("load_mapping") /\ UNCHANGED gateVars

\* setup_logging; signal.signal(signal.SIGINT, _on_sigint)
InstallHandler == Prereq("signal") /\ UNCHANGED gateVars

\* "if not workbook_path ...: raise ValueError" of the flow that was requested
CheckArgs == Prereq("check_args") /\ UNCHANGED gateVars

read_impuestos ==
    /\ Prereq("read_impuestos")
    /\ \E l \in RunLabels :
         IF "sheet" \in missing
         THEN UNCHANGED << label_isr, label_iva >>
         ELSE label_isr' = l[1] /\ label_iva' = l[2]
    /\ UNCHANGED << checked, gate, disp_isr, disp_iva, disp_total >>

get_efirma_from_db == Prereq("get_efirma_from_db") /\ UNCHANGED gateVars

get_efirma_from_config == Prereq("get_efirma_from_config") /\ UNCHANGED gateVars

\* ------------------------------------------------------ opening a session
\* with sync_playwright(): launch, new_context, new_page, _run_context = {...}
\* "failed" names the first call that raised ("none": all succeeded)
OpenSession ==
    /\ Running /\ pc = "launch"
    /\ \E failed \in {"none", "launch", "new_context", "new_page"} :
         /\ launches' = IF failed = "launch" THEN launches ELSE launches + 1
         /\ open' = CASE failed = "launch" -> open
                      [] failed = "new_context" -> open \cup {"browser"}
                      [] failed = "new_page" -> open \cup {"browser", "context"}
                      [] OTHER -> open \cup {"browser", "context", "page"}
         /\ IF failed = "none"
            THEN /\ sessions' = sessions + 1 /\ run_context' = TRUE
                 /\ pc' = Steps[1] /\ UNCHANGED pending
            ELSE /\ pending' = "exc" /\ pc' = "leave"
                 /\ UNCHANGED << sessions, run_context >>
    /\ status' = None /\ body' = "clean" /\ site' = "none" /\ polls' = 0
    /\ checked' = FALSE /\ gate' = NoGate /\ clicked' = FALSE
    /\ disp_isr' = None /\ disp_iva' = None /\ disp_total' = None
    /\ obligation' = "none" /\ waits' = 0
    /\ UNCHANGED << attempt, exitKind, result, exitCode, outcome >>
    /\ UNCHANGED << sleeps, logouts, ctxCloses, brCloses, submits >>
    /\ UNCHANGED << inputVars, harnessVars, label_isr, label_iva >>

\* ---------------------------------------------------------------- login_sat
InTry(step) == Running /\ pc = step
KeepRun == UNCHANGED << attempt, exitKind, result, exitCode, outcome, resVars, inputVars, harnessVars >>

\* page.goto; _check_sat_page_error(page, response_status=...)
LoginGoto ==
    /\ InTry("login_goto")
    /\ \/ Raise /\ UNCHANGED loginVars
       \/ \E st \in Statuses, b \in Bodies :
            /\ status' = st /\ body' = b /\ site' = "load"
            /\ IF _check_sat_page_error(st, b) # "none"
               THEN Raise
               ELSE pc' = NextPc(pc) /\ UNCHANGED pending
            /\ UNCHANGED polls
    /\ KeepRun /\ UNCHANGED << gateVars, sendVars, phaseVars >>

\* _try_click "_login_e_firma_button", else RuntimeError
LoginEFirma ==
    /\ InTry("login_e_firma")
    /\ \/ Raise
       \/ pc' = NextPc(pc) /\ UNCHANGED pending
    /\ KeepRun /\ UNCHANGED << loginVars, gateVars, sendVars, phaseVars >>

\* _try_click "_login_enviar_button" and its fallbacks, else RuntimeError
LoginEnviar ==
    /\ InTry("login_enviar")
    /\ \/ Raise
       \/ pc' = NextPc(pc) /\ UNCHANGED pending
    /\ KeepRun /\ UNCHANGED << loginVars, gateVars, sendVars, phaseVars >>

\* variant: the post-login poll has no time budget
LoginPollUnbudgeted ==
    /\ InTry("login_poll")
    /\ \/ Raise /\ UNCHANGED loginVars
       \/ pc' = NextPc(pc) /\ UNCHANGED << pending, loginVars >>
       \/ \E b \in Bodies :
            /\ body' = b /\ site' = "poll"
            /\ IF b \in PollErrorPhrases
               THEN Raise
               ELSE UNCHANGED << pending, pc >>
            /\ UNCHANGED << status, polls >>
    /\ KeepRun /\ UNCHANGED << gateVars, sendVars, phaseVars >>

\* one iteration of the post-login poll, or the end of its time budget
LoginPoll ==
    /\ InTry("login_poll")
    /\ \/ /\ polls < MaxPolls
          /\ \/ Raise /\ UNCHANGED loginVars                        \* wait_for_timeout raised
             \/ pc' = NextPc(pc) /\ UNCHANGED << pending, loginVars >>   \* authenticated URL: break
             \/ \E b \in Bodies :
                  /\ body' = b /\ site' = "poll" /\ polls' = polls + 1
                  /\ IF b \in PollErrorPhrases
                     THEN Raise
                     ELSE UNCHANGED << pending, pc >>
                  /\ UNCHANGED status
       \/ /\ polls >= 1                                             \* t_end reached
          /\ pc' = NextPc(pc) /\ UNCHANGED << pending, loginVars >>
    /\ KeepRun /\ UNCHANGED << gateVars, sendVars, phaseVars >>

\* err = _check_sat_page_error(page); raise RuntimeError(err)
LoginAfter ==
    /\ InTry("login_after")
    /\ \E b \in Bodies :
         /\ body' = b /\ site' = "after"
         /\ IF _check_sat_page_error(None, b) # "none"
            THEN Raise
            ELSE pc' = NextPc(pc) /\ UNCHANGED pending
    /\ UNCHANGED << status, polls >>
    /\ KeepRun /\ UNCHANGED << gateVars, sendVars, phaseVars >>

\* ------------------------------------------------------- the other phases
\* a phase function whose boolean result run() only logs; an unguarded page
\* call inside it (or the wait that follows it in run()) can raise
PlainStep ==
    /\ Running /\ pc \in PlainSteps
    /\ \/ Raise
       \/ pc' = NextPc(pc) /\ UNCHANGED pending
    /\ KeepRun /\ UNCHANGED << loginVars, gateVars, sendVars, phaseVars >>

\* dismiss_draft_if_present: one iteration of the draft probe (body read, then
\* page.wait_for_timeout(DRAFT_POLL_MS)), or the end of its DRAFT_PAGE_WAIT_MS
\* budget; the detour that deletes a draft swallows its own exceptions
dismiss_draft_if_present ==
    /\ InTry("dismiss_draft_if_present")
    /\ \/ /\ waits < MaxPolls
          /\ \/ Raise /\ waits' = 0                                 \* wait_for_timeout raised
             \/ waits' = waits + 1 /\ UNCHANGED << pending, pc >>   \* no marker yet
             \/ pc' = NextPc(pc) /\ waits' = 0 /\ UNCHANGED pending \* marker: break, detour
       \/ /\ waits >= 1                                             \* t_end reached
          /\ pc' = NextPc(pc) /\ waits' = 0 /\ UNCHANGED pending
    /\ UNCHANGED obligation
    /\ KeepRun /\ UNCHANGED << loginVars, gateVars, sendVars >>

\* transition_initial_to_phase3, first statements: _try_click "_btn_siguiente"
\* (False: return False at once), then page.wait_for_timeout(500)
transition_initial_to_phase3 ==
    /\ InTry("transition_initial_to_phase3")
    /\ \/ pc' = NextPc("popup_cerrar") /\ UNCHANGED pending
       \/ Raise
       \/ pc' = NextPc(pc) /\ UNCHANGED pending
    /\ KeepRun /\ UNCHANGED << loginVars, gateVars, sendVars, phaseVars >>

\* iterations of "for _ in range(PHASE3_LOADING_MAX_WAIT_SEC * 2)" that the model follows
LoadingIterations == Min(PHASE3_LOADING_MAX_WAIT_SEC * 2, MaxPolls)

\* the loading poll of transition_initial_to_phase3: an iteration that still
\* sees the loading text, or the end of the loop (text gone, an exception the
\* enclosing try swallows, range exhausted) and page.wait_for_timeout(300)
LoadingWait ==
    /\ InTry("loading_wait")
    /\ \/ /\ waits < LoadingIterations
          /\ waits' = waits + 1 /\ UNCHANGED << pending, pc >>
       \/ Raise /\ waits' = 0
       \/ pc' = NextPc(pc) /\ waits' = 0 /\ UNCHANGED pending
    /\ UNCHANGED obligation
    /\ KeepRun /\ UNCHANGED << loginVars, gateVars, sendVars >>

\* variant: a failed click of the obligation ends the attempt
open_obligation_isr_required ==
    /\ InTry("open_obligation_isr")
    /\ \/ obligation' = "clicked" /\ (Raise \/ (pc' = NextPc(pc) /\ UNCHANGED pending))
       \/ obligation' = "failed" /\ Raise
    /\ UNCHANGED waits
    /\ KeepRun /\ UNCHANGED << loginVars, gateVars, sendVars >>

\* ok = _try_click(page, mapping, "_select_obligation_isr");
\* if ok: page.wait_for_timeout(1500); run() logs a warning when not ok
open_obligation_isr ==
    /\ InTry("open_obligation_isr")
    /\ \/ obligation' = "clicked" /\ (Raise \/ (pc' = NextPc(pc) /\ UNCHANGED pending))
       \/ obligation' = "failed" /\ pc' = NextPc(pc) /\ UNCHANGED pending
    /\ UNCHANGED waits
    /\ KeepRun /\ UNCHANGED << loginVars, gateVars, sendVars >>

\* variant: the result of check_totals is logged but does not stop the attempt
CheckTotalsUngated ==
    /\ Running /\ pc = "check_totals"
    /\ \E d \in RunDisplays :
         /\ disp_isr' = d[1] /\ disp_iva' = d[2] /\ disp_total' = d[3]
         /\ gate' = check_totals(label_isr, label_iva, d[1], d[2], d[3], tolerance)
    /\ checked' = TRUE
    /\ pc' = "send_declaration" /\ UNCHANGED pending
    /\ UNCHANGED << label_isr, label_iva >>
    /\ UNCHANGED << attempt, exitKind, result, exitCode, outcome, resVars, inputVars, harnessVars >>
    /\ UNCHANGED << loginVars, sendVars, phaseVars >>

\* ok, msg = check_totals(...); if not ok: return False
CheckTotals ==
    /\ InTry("check_totals")
    /\ \E d \in RunDisplays :
         /\ disp_isr' = d[1] /\ disp_iva' = d[2] /\ disp_total' = d[3]
         /\ gate' = check_totals(label_isr, label_iva, d[1], d[2], d[3], tolerance)
    /\ checked' = TRUE
    /\ IF gate'.ok
       THEN pc' = NextPc(pc) /\ UNCHANGED pending
       ELSE Return("false")
    /\ UNCHANGED << label_isr, label_iva >>
    /\ KeepRun /\ UNCHANGED << loginVars, sendVars, phaseVars >>

\* variant: a successful click of the submit control is taken for a failure
send_declaration_inverted ==
    /\ InTry("send_declaration")
    /\ \/ /\ clicked' = TRUE /\ submits' = submits + 1
          /\ Return("false")
       \/ pc' = NextPc(pc) /\ UNCHANGED << pending, sendVars >>
    /\ KeepRun /\ UNCHANGED << loginVars, gateVars, phaseVars >>

\* if not send_declaration(page, mapping): return False
send_declaration ==
    /\ InTry("send_declaration")
    /\ \/ /\ clicked' = TRUE /\ submits' = submits + 1
          /\ pc' = NextPc(pc) /\ UNCHANGED pending
       \/ Return("false") /\ UNCHANGED sendVars
    /\ KeepRun /\ UNCHANGED << loginVars, gateVars, phaseVars >>

\* page.wait_for_timeout(3000); return True
PostSendWait ==
    /\ InTry("post_send_wait")
    /\ (Raise \/ Return("true"))
    /\ KeepRun /\ UNCHANGED << loginVars, gateVars, sendVars, phaseVars >>

\* test flows: page.wait_for_timeout(10000); return True
Inspect ==
    /\ InTry("inspect")
    /\ (Raise \/ Return("true"))
    /\ KeepRun /\ UNCHANGED << loginVars, gateVars, sendVars, phaseVars >>

\* ------------------------------------------------------ the finally block
KeepCtl == UNCHANGED << attempt, exitKind, result, exitCode, outcome >>

\* logout_sat(page, mapping) swallows every Exception; _run_context = None
logout_sat ==
    /\ InTry("logout_sat")
    /\ logouts' = logouts + 1 /\ run_context' = FALSE
    /\ pc' = "context_close"
    /\ KeepCtl /\ UNCHANGED pending
    /\ UNCHANGED << launches, sessions, sleeps, ctxCloses, brCloses, open >>
    /\ UNCHANGED << inputVars, harnessVars, loginVars, gateVars, sendVars, phaseVars >>

\* context.close(): an exception here replaces the pending return and skips browser.close()
ContextClose ==
    /\ InTry("context_close")
    /\ ctxCloses' = ctxCloses + 1
    /\ \/ open' = open \ {"context", "page"} /\ pc' = "browser_close" /\ UNCHANGED pending
       \/ pending' = "exc" /\ pc' = "leave" /\ UNCHANGED open
    /\ KeepCtl
    /\ UNCHANGED << launches, sessions, sleeps, logouts, brCloses, run_context >>
    /\ UNCHANGED << inputVars, harnessVars, loginVars, gateVars, sendVars, phaseVars >>

\* browser.close(): an exception here replaces the pending return
BrowserClose ==
    /\ InTry("browser_close")
    /\ brCloses' = brCloses + 1
    /\ \/ open' = {} /\ UNCHANGED pending
       \/ pending' = "exc" /\ UNCHANGED open
    /\ pc' = "leave"
    /\ KeepCtl
    /\ UNCHANGED << launches, sessions, sleeps, logouts, ctxCloses, run_context >>
    /\ UNCHANGED << inputVars, harnessVars, loginVars, gateVars, sendVars, phaseVars >>

\* variant: the handler sleeps and retries after the second failure too
RetryAlways(a) == a <= 1

\* if attempt == 0: (sleep and go round the loop) else: return False
RetryAllowed(a) == a = 0

\* variant: leaving the with block releases nothing
LeaveKeepsOpen ==
    /\ InTry("leave")
    /\ outcome' = Append(outcome, pending)
    /\ IF pending = "exc"
       THEN IF RetryAllowed(attempt)
            THEN pc' = "sleep" /\ UNCHANGED << exitKind, result >>
            ELSE Finish(FALSE)
       ELSE Finish(pending = "true")
    /\ pending' = "none"
    /\ UNCHANGED << attempt, exitCode >>
    /\ UNCHANGED << resVars, inputVars, harnessVars, loginVars, gateVars, sendVars, phaseVars >>

\* the with block is left: by the pending return, or into "except Exception";
\* the exit of "with sync_playwright()" stops Playwright, which ends whatever
\* browser, context and page the finally block did not close
Leave ==
    /\ InTry("leave")
    /\ outcome' = Append(outcome, pending)
    /\ IF pending = "exc"
       THEN IF RetryAllowed(attempt)
            THEN pc' = "sleep" /\ UNCHANGED << exitKind, result >>
            ELSE Finish(FALSE)
       ELSE Finish(pending = "true")
    /\ pending' = "none"
    /\ open' = {}
    /\ UNCHANGED << attempt, exitCode >>
    /\ UNCHANGED << launches, sessions, sleeps, logouts, ctxCloses, brCloses, run_context >>
    /\ UNCHANGED << inputVars, harnessVars, loginVars, gateVars, sendVars, phaseVars >>

\* time.sleep(RETRY_WAIT_SECONDS), then the next iteration of range(2);
\* the "return False" after the loop when there is none
Sleep ==
    /\ InTry("sleep")
    /\ sleeps' = sleeps + 1
    /\ IF attempt + 1 < RangeAttempts
       THEN attempt' = attempt + 1 /\ pc' = "launch" /\ UNCHANGED << exitKind, result >>
       ELSE Finish(FALSE) /\ UNCHANGED attempt
    /\ UNCHANGED << pending, exitCode, outcome >>
    /\ UNCHANGED << launches, sessions, logouts, ctxCloses, brCloses, open, run_context >>
    /\ UNCHANGED << inputVars, harnessVars, loginVars, gateVars, sendVars, phaseVars >>

\* ------------------------------------------------------------------ SIGINT
HandlerInstalled == pc \notin {"load_config", "load_mapping", "signal", "done"}

\* variant: the handler logs out through the page before it exits
_on_sigint_logout ==
    /\ exitKind = "running" /\ pc \notin {"load_config", "load_mapping", "signal", "done"}
    /\ exitKind' = "killed" /\ exitCode' = Some(SigintExitCode)
    /\ logouts' = logouts + 1
    /\ UNCHANGED << pc, attempt, pending, result, outcome >>
    /\ UNCHANGED << launches, sessions, sleeps, ctxCloses, brCloses, open, run_context >>
    /\ UNCHANGED << inputVars, harnessVars, loginVars, gateVars, sendVars, phaseVars >>

\* _on_sigint: print; os._exit(130) -- the process ends at once, no finally block runs
_on_sigint ==
    /\ Running /\ HandlerInstalled
    /\ exitKind' = "killed" /\ exitCode' = Some(SigintExitCode)
    /\ UNCHANGED << pc, attempt, pending, result, outcome >>
    /\ UNCHANGED << resVars, inputVars, harnessVars, loginVars, gateVars, sendVars, phaseVars >>

\* ------------------------------------------------------------------- Next
Next ==
    \/ load_config \/ load_mapping \/ InstallHandler \/ CheckArgs
    \/ read_impuestos \/ get_efirma_from_db \/ get_efirma_from_config
    \/ OpenSession
    \/ LoginGoto \/ LoginEFirma \/ LoginEnviar \/ LoginPoll \/ LoginAfter
    \/ PlainStep \/ dismiss_draft_if_present \/ transition_initial_to_phase3
    \/ LoadingWait \/ open_obligation_isr
    \/ CheckTotals \/ send_declaration \/ PostSendWait \/ Inspect
    \/ logout_sat \/ ContextClose \/ BrowserClose \/ Leave \/ Sleep
    \/ _on_sigint

Spec == Init /\ [][Next]_vars

\* the statements of run(): the interpreter keeps executing them, and every
\* call that waits on the page has a timeout; SIGINT may never arrive
Program ==
    \/ load_config \/ load_mapping \/ InstallHandler \/ CheckArgs
    \/ read_impuestos \/ get_efirma_from_db \/ get_efirma_from_config
    \/ OpenSession
    \/ LoginGoto \/ LoginEFirma \/ LoginEnviar \/ LoginPoll \/ LoginAfter
    \/ PlainStep \/ dismiss_draft_if_present \/ transition_initial_to_phase3
    \/ LoadingWait \/ open_obligation_isr
    \/ CheckTotals \/ send_declaration \/ PostSendWait \/ Inspect
    \/ logout_sat \/ ContextClose \/ BrowserClose \/ Leave \/ Sleep

FairSpec == Init /\ [][Next]_vars /\ WF_vars(Program)

\* ------------------------------------- check_totals on its own input space
InitTotals ==
    /\ InitRun
    /\ mode = "normal" /\ missing = {}
    /\ tolerance \in Tolerances

\* the workbook's labels and the summary page's figures, then the call
ApplyCheckTotals ==
    /\ Running /\ pc = "load_config" /\ ~gate.ran
    /\ \E li \in LabelValues, lv \in LabelValues, di \in DispValues, dv \in DispValues,
          dt \in DispValues :
         /\ label_isr' = li /\ label_iva' = lv
         /\ disp_isr' = di /\ disp_iva' = dv /\ disp_total' = dt
         /\ gate' = check_totals(li, lv, di, dv, dt, tolerance)
    /\ checked' = TRUE
    /\ UNCHANGED << ctlVars, resVars, inputVars, harnessVars, loginVars, sendVars, phaseVars >>

NextTotals == ApplyCheckTotals

SpecTotals == InitTotals /\ [][NextTotals]_vars

\* --------------------- the income comparison on its own input space
runVars == << ctlVars, resVars, inputVars, loginVars, gateVars, sendVars, phaseVars >>

InitHarness ==
    /\ InitRun
    /\ mode = "normal" /\ missing = {} /\ tolerance = TOLERANCE_PESOS

\* the workbook's total, the page's total, and sections 4 and 5 of the form
ApplyIngresos ==
    /\ Running /\ pc = "load_config" /\ ~ingresos.ran
    /\ \E e \in ExpectedTotals, o \in ObservedTotals, fd \in BOOLEAN, fa \in BOOLEAN :
         ingresos' = ingresos_sections(e, o, fd, fa)
    /\ UNCHANGED << runVars, unitVars, resolve, callVars >>

NextIngresos == ApplyIngresos

SpecIngresos == InitHarness /\ [][NextIngresos]_vars

\* ------------------------- _try_fill / _try_click on their own input space
\* a call of one of the two functions for a key of the mapping
ResolveCall ==
    /\ Running /\ pc = "load_config" /\ resolve.fn = "none"
    /\ \E fn \in {"_try_fill", "_try_click"}, sl \in SelectorLists :
         resolve' = resolve_call(fn, sl)
    /\ UNCHANGED << runVars, unitVars, ingresos, callVars >>

\* the next turn of the loop over the selectors
ResolveStep ==
    /\ resolve.fn # "none" /\ resolve.ret = "none"
    /\ resolve' = try_selector(resolve)
    /\ UNCHANGED << runVars, unitVars, ingresos, callVars >>

NextResolve == ResolveCall \/ ResolveStep

SpecResolve == InitHarness /\ [][NextResolve]_vars

\* ------------------------------ dismiss_draft_if_present on its own inputs
ApplyDismissDraft ==
    /\ Running /\ pc = "load_config" /\ ~draft.ran
    /\ \E obs \in Probes, lookups \in TrashLookups, popup \in BOOLEAN, si \in BOOLEAN,
          fault \in {"none", "probe", "detour"} :
         draft' = dismiss_draft(obs, lookups, popup, si, fault)
    /\ UNCHANGED << runVars, unitVars, ingresos, resolve, initial, section, isr_form, dropdown, files >>

NextDraft == ApplyDismissDraft

SpecDraft == InitHarness /\ [][NextDraft]_vars

\* ------------------------------------- fill_initial_form on its own inputs
\* year and month as read_impuestos takes them from the file name
Years == {None, Some(2025)}
Months == {None, Some(3)}

InitialCall ==
    /\ Running /\ pc = "load_config" /\ ~initial.on
    /\ \E y \in Years, m \in Months, mapped \in BOOLEAN, wait_raises \in BOOLEAN :
         initial' = initial_call(y, m, mapped, wait_raises)
    /\ UNCHANGED << runVars, unitVars, ingresos, resolve, draft, section, isr_form, dropdown, files >>

InitialStage ==
    /\ initial.on /\ initial.ret = "none"
    /\ \E oks \in [1..3 -> BOOLEAN], wait_raises \in BOOLEAN :
         initial' = initial_stage(initial, oks, wait_raises)
    /\ UNCHANGED << runVars, unitVars, ingresos, resolve, draft, section, isr_form, dropdown, files >>

NextInitial == InitialCall \/ InitialStage

SpecInitial == InitHarness /\ [][NextInitial]_vars

\* ------------------------------- fill_obligation_section on its own inputs
SectionCall ==
    /\ Running /\ pc = "load_config" /\ ~section.on
    /\ \E n \in 0..MaxLabels : \E vs \in [1..n -> SectionValues] :
         section' = [NoSection EXCEPT !.on = TRUE, !.values = vs, !.i = 1]
    /\ UNCHANGED << runVars, unitVars, ingresos, resolve, draft, initial, isr_form, dropdown, files >>

SectionStep ==
    /\ section.on /\ section.ret = "none"
    /\ \E wait_raises \in BOOLEAN : section' = section_step(section, wait_raises)
    /\ UNCHANGED << runVars, unitVars, ingresos, resolve, draft, initial, isr_form, dropdown, files >>

NextSection == SectionCall \/ SectionStep

SpecSection == InitHarness /\ [][NextSection]_vars

\* -------------- the head and sections 3 to 5 of fill_isr_ingresos_form
ApplyIsrForm ==
    /\ Running /\ pc = "load_config" /\ ~isr_form.ran /\ ~ingresos.ran
    /\ \E cells \in ChainCells, ff \in BOOLEAN, dl \in DescuentosLabels,
          capturar \in BOOLEAN, filled \in BOOLEAN, o \in IsrObserved :
         /\ isr_form' = isr_form_head(cells, ff, dl, capturar, filled)
         /\ ingresos' = ingresos_sections(Some(isr_form'.expected), o, TRUE, TRUE)
    /\ UNCHANGED << runVars, unitVars, resolve, draft, initial, section, dropdown, files >>

NextIsrForm == ApplyIsrForm

SpecIsrForm == InitHarness /\ [][NextIsrForm]_vars

\* ------------------------------ _fill_select_next_to_label on its own inputs
FillSelect ==
    /\ Running /\ pc = "load_config" /\ dropdown.calls = 0
    /\ \E c \in Controls, v \in ValueStrs, mapped \in 0..1, labelled \in 0..2 :
          dropdown' = fill_select_next_to_label(
                          [dropdown EXCEPT !.initial = << c, OtherControl >>],
                          << c, OtherControl >>, v, mapped, labelled)
    /\ UNCHANGED << runVars, unitVars, ingresos, resolve, draft, initial, section, isr_form, files >>

\* The same call once more on the page the first call left.
FillSelectAgain ==
    /\ Running /\ pc = "load_config" /\ dropdown.calls = 1
    /\ dropdown' = fill_select_next_to_label(dropdown, dropdown.controls,
                       dropdown.value_str, dropdown.mapped, dropdown.labelled)
    /\ UNCHANGED << runVars, unitVars, ingresos, resolve, draft, initial, section, isr_form, files >>

NextDropdown == FillSelect \/ FillSelectAgain

SpecDropdown == InitHarness /\ [][NextDropdown]_vars

\* ------------------------------------- the file inputs on their own inputs
MaxFileInputs == 2

LoginFiles ==
    /\ Running /\ pc = "load_config" /\ ~files.ran
    /\ \E n \in 0..MaxFileInputs, visible \in BOOLEAN,
          cer_sels \in FileSelectorLists, key_sels \in FileSelectorLists :
          files' = login_files(n, visible, cer_sels, key_sels)
    /\ UNCHANGED << runVars, unitVars, ingresos, resolve, draft, initial, section, isr_form, dropdown >>

NextFiles == LoginFiles

SpecFiles == InitHarness /\ [][NextFiles]_vars

\* --------------------------- _click_capturar_next_to_label on its own inputs
ClickCapturar ==
    /\ Running /\ pc = "load_config" /\ ~capclick.ran
    /\ \E rows \in CapPages, occurrence \in 0..1, clickable \in BOOLEAN :
          capclick' = click_capturar_next_to_label(rows, occurrence, clickable)
    /\ UNCHANGED << runVars, ingresos, resolve, callVars, disclosure, postlogin, cellres, xlcalc >>

NextCapturar == ClickCapturar

SpecCapturar == InitHarness /\ [][NextCapturar]_vars


\* ------------------------------------------------ harness: disclosure popups
PopupFrame == UNCHANGED << runVars, ingresos, resolve, callVars, capclick, postlogin, cellres, xlcalc >>

PopupDisminuir ==
    /\ Running /\ pc = "load_config" /\ ~disclosure.ran
    /\ \E pg \in PopupPages : disclosure' = ingresos_a_disminuir_popup(pg)
    /\ PopupFrame

PopupAdicionales ==
    /\ Running /\ pc = "load_config" /\ ~disclosure.ran
    /\ \E pg \in PopupPages, mapped \in BOOLEAN :
          disclosure' = ingresos_adicionales_popup(pg, mapped)
    /\ PopupFrame

NextPopup == PopupDisminuir \/ PopupAdicionales

SpecPopup == InitHarness /\ [][NextPopup]_vars

\* --------------------------------------------- harness: post-login poll
PostLoginFrame == UNCHANGED << runVars, ingresos, resolve, callVars, capclick, disclosure, cellres, xlcalc >>

\* Enviar was pressed: the poll begins
PostLoginEnter ==
    /\ Running /\ pc = "load_config" /\ postlogin.pc = "idle"
    /\ postlogin' = [postlogin EXCEPT !.pc = "poll"]
    /\ PostLoginFrame

PostLoginPoll ==
    /\ postlogin.pc = "poll"
    /\ \/ /\ postlogin.polls < MaxPolls
          /\ \E ev \in {"wait_raises", "url"} \cup Bodies :
                postlogin' = post_login_poll(postlogin, ev)
       \/ /\ postlogin.polls >= 1
          /\ postlogin' = post_login_poll(postlogin, "t_end")
    /\ PostLoginFrame

PostLoginSettle ==
    /\ postlogin.pc = "wait_for_url"
    /\ \E reached \in BOOLEAN, marker \in BOOLEAN :
          postlogin' = post_login_settle(postlogin, reached, marker)
    /\ PostLoginFrame

PostLoginCheck ==
    /\ postlogin.pc = "check"
    /\ \E b \in Bodies : postlogin' = post_login_check(postlogin, b)
    /\ PostLoginFrame

NextPostLogin == PostLoginEnter \/ PostLoginPoll \/ PostLoginSettle \/ PostLoginCheck

SpecPostLogin == InitHarness /\ [][NextPostLogin]_vars

\* ------------------------------------- harness: formula-reference resolution
CellResFrame == UNCHANGED << runVars, ingresos, resolve, callVars, capclick, disclosure, postlogin, xlcalc >>

\* val = _cell_display_value(ws, ws_formula, r2, c2) for one formula cell
CellResolve ==
    /\ Running /\ pc = "load_config" /\ ~cellres.on
    /\ \E sheet \in Sheets, start \in 1..MaxCells :
          cellres' = [NoCellRes EXCEPT !.on = TRUE, !.sheet = sheet,
                                       !.start = start, !.cur = start]
    /\ CellResFrame

CellCall ==
    /\ cellres.on /\ cellres.done = "no"
    /\ cellres' = cell_display_value_call(cellres)
    /\ CellResFrame

NextCellRes == CellResolve \/ CellCall

SpecCellRes == InitHarness /\ [][NextCellRes]_vars
\* a call that was made runs: nothing in the function blocks
FairCellRes == SpecCellRes /\ WF_vars(CellCall)

\* ------------------------------------------ harness: _xlcalculator_evaluator
XlcalcFrame == UNCHANGED << runVars, ingresos, resolve, callVars, capclick, disclosure, postlogin, cellres >>

XlcalcCall ==
    /\ Running /\ pc = "load_config" /\ xlcalc.main = "idle"
    /\ \E installed \in BOOLEAN, n \in 0..MaxCells :
          \E before \in ImportFailedBefore(installed) :
             xlcalc' = xlcalc_import([xlcalc EXCEPT !.cells = n], installed, before)
    /\ XlcalcFrame

\* t = threading.Thread(target=_build, daemon=True); t.start()
XlcalcStart ==
    /\ xlcalc.main = "start"
    /\ xlcalc' = [xlcalc EXCEPT !.main = "join", !.thr = "compile"]
    /\ XlcalcFrame

\* t.join(timeout=...) returns: the thread ended, or the timeout passed
XlcalcJoin ==
    /\ xlcalc.main = "join"
    /\ xlcalc' = [xlcalc EXCEPT !.main = "after_join"]
    /\ XlcalcFrame

XlcalcAfterJoin ==
    /\ xlcalc.main = "after_join"
    /\ xlcalc' = xlcalc_after_join(xlcalc)
    /\ XlcalcFrame

\* the builder thread advances, whatever the caller is doing
XlcalcBuild ==
    /\ xlcalc.thr \in {"compile", "evaluator"}
    /\ \E how \in {"ok", "Exception", "BaseException"} :
          xlcalc' = build_step(xlcalc, how)
    /\ XlcalcFrame

XlcalcThreadExit ==
    /\ xlcalc.thr = "exiting"
    /\ xlcalc' = [xlcalc EXCEPT !.thr = "dead"]
    /\ XlcalcFrame

\* xval = _evaluate_cell(evaluator, IMPUESTOS_SHEET, row, col) for one cell
XlcalcEvaluate ==
    /\ evaluator_usable(xlcalc)
    /\ xlcalc' = [xlcalc EXCEPT !.used = @ + 1]
    /\ XlcalcFrame

NextXlcalc ==
    \/ XlcalcCall \/ XlcalcStart \/ XlcalcJoin \/ XlcalcAfterJoin
    \/ XlcalcBuild \/ XlcalcThreadExit \/ XlcalcEvaluate

SpecXlcalc == InitHarness /\ [][NextXlcalc]_vars
\* =================================================================== claims

\* C1: in the normal flow the submit control is clicked only in an attempt in
\* which check_totals has already run and returned ok (ISR, IVA and total all
\* within tolerance); never after a failed check or without a check.
C1_SubmitOnlyAfterTotalsOk ==
    [][ submits' # submits =>
          /\ mode = "normal" /\ pc = "send_declaration"
          /\ checked /\ gate.ran /\ gate.ok
          /\ gate.ok_isr /\ gate.ok_iva /\ gate.ok_total ]_vars

C1_Witness == clicked /\ submits = 1 /\ checked /\ gate.ok /\ pc = "post_send_wait"

\* C2: the normal flow makes at most two attempts and takes at most one
\* cooling-off delay; a first attempt that fails with an exception followed by a
\* second that succeeds gives success after exactly one retry; two failed
\* attempts give failure at once, and no third attempt is started.
C2_AtMostOneRetry ==
    mode = "normal" =>
      /\ Len(outcome) <= 2 /\ attempt <= 1 /\ launches <= 2 /\ sleeps <= 1
      /\ (exitKind = "returned" /\ outcome = << "exc", "true" >>)
            => (result = Some(TRUE) /\ sleeps = 1 /\ attempt = 1)
      /\ (Len(outcome) = 2 /\ outcome[1] = "exc" /\ outcome[2] = "exc")
            => (exitKind = "returned" /\ result = Some(FALSE) /\ pc = "done")
      /\ Len(outcome) = 2 => (outcome[1] = "exc" /\ sleeps = 1 /\ pc = "done")

C2_Witness ==
    /\ mode = "normal" /\ exitKind = "returned" /\ outcome = << "exc", "true" >>
    /\ result = Some(TRUE) /\ sleeps = 1

\* C3 (as claimed): however a run ends once a session was opened (return,
\* exception or SIGINT), every opened session has had its logout attempted and
\* its context and browser closed before the process exits.
C3_TeardownOnEveryExit ==
    (exitKind # "running" /\ sessions > 0) =>
        (logouts = sessions /\ ctxCloses = sessions /\ brCloses = sessions)

C5_TotalsFailureNoRetry ==
    [][ (mode = "normal" /\ checked /\ ~gate.ok) =>
          /\ pc' # "sleep" /\ sleeps' = sleeps /\ attempt' = attempt
          /\ submits' = submits
          /\ exitKind' = "returned" => result' = Some(FALSE) ]_vars

\* C6: check_totals returns ok exactly when observed ISR, observed IVA and
\* observed total are each within the tolerance of expected ISR, expected IVA
\* and expected ISR + expected IVA; (500, 300) against (500, 299.5) at
\* tolerance 1 passes all three checks; ISR 500 against 503 fails whatever the
\* other two checks give.
C6_TotalsGate ==
    gate.ran =>
      /\ gate.excel_total = gate.excel_isr + gate.excel_iva
      /\ gate.ok <=> /\ Abs(gate.sat_isr - gate.excel_isr) <= tolerance * Scale
                     /\ Abs(gate.sat_iva - gate.excel_iva) <= tolerance * Scale
                     /\ Abs(gate.sat_total - gate.excel_total) <= tolerance * Scale
      /\ ( /\ label_isr = Some(5000) /\ label_iva = Some(3000) /\ tolerance = 1
           /\ disp_isr = Some(5000) /\ disp_iva = Some(2995)
           /\ disp_total \in {None, Some(7995)} )
            => (gate.ok_isr /\ gate.ok_iva /\ gate.ok_total /\ gate.ok)
      /\ (label_isr = Some(5000) /\ disp_isr = Some(5030) /\ tolerance = 1)
            => (~gate.ok_isr /\ ~gate.ok)

C6_Witness ==
    /\ gate.ran /\ gate.ok /\ tolerance = 1
    /\ label_isr = Some(5000) /\ label_iva = Some(3000)
    /\ disp_isr = Some(5000) /\ disp_iva = Some(2995) /\ disp_total = Some(7995)

\* the prerequisites each flow of run() reads before its attempt loop
Required(m) ==
    CASE m = "normal" -> Prereqs
      [] m \in {"test_login", "test_initial_form"} -> {"config", "mapping", "cer", "key"}
      [] OTHER -> {"config", "mapping", "workbook", "sheet", "cer", "key"}

\* C7: when a prerequisite the flow needs is missing, the run ends before the
\* attempt loop: no browser is launched, no session opened, no cooling-off
\* delay taken, no attempt made, and run() does not return normally.
C7_MissingPrerequisiteIsImmediate ==
    (missing \cap Required(mode) # {}) =>
      /\ launches = 0 /\ sessions = 0 /\ open = {} /\ sleeps = 0
      /\ attempt = 0 /\ outcome = << >> /\ logouts = 0
      /\ pc \in PrereqSteps \cup {"signal", "done"}
      /\ exitKind # "returned"

C7_Witness ==
    mode = "normal" /\ missing = {"key"} /\ exitKind = "raised" /\ launches = 0

\* C8 (as claimed): no exception ever leaves run(); whatever fails, run() ends
\* with a boolean result.
C8_NoExceptionEscapes ==
    /\ exitKind # "raised"
    /\ pc = "done" => (exitKind = "returned" /\ result \in {Some(TRUE), Some(FALSE)})

\* a server fault as the check that made the last observation recognizes it
FaultObserved ==
    \/ /\ site = "load"
       /\ \/ ~IsNone(status) /\ Get(status) >= 400
          \/ body \in {"err500", "maint"}
    \/ site = "poll" /\ body = "err500"
    \/ site = "after" /\ body \in {"err500", "maint"}

Rank(ph) ==
    CASE ph = "LoggedOut" -> 0
      [] ph = "LoggingIn" -> 1
      [] ph = "ConfiguringPeriod" -> 2
      [] ph = "TransitioningToDetail" -> 3
      [] ph = "SelectingObligation" -> 4
      [] ph = "FillingIncomeSection" -> 5
      [] ph = "FillingAdditionalSections" -> 6
      [] ph = "VerifyingTotals" -> 7
      [] ph = "Submitting" -> 8
      [] OTHER -> 9

\* C10: within an attempt the phases follow one another in the fixed order
\* LoggingIn, ConfiguringPeriod, TransitioningToDetail, SelectingObligation,
\* FillingIncomeSection, FillingAdditionalSections, VerifyingTotals, Submitting:
\* a step stays in its phase, moves to the next one, or leaves for the
\* teardown; LoggingIn is entered only from the start of an attempt, once per
\* attempt, so the only way back is the retry.
C10_PhaseOrder ==
    [][ LET a == Rank(Phase(pc))
            b == Rank(Phase(pc'))
        IN  /\ \/ b = a
               \/ a \in 1..7 /\ b = a + 1
               \/ a \in 1..8 /\ b = 9
               \/ a = 9 /\ b = 0
               \/ a = 0 /\ b \in {1, 9}
            /\ (a # 1 /\ b = 1) =>
                 /\ pc = "launch" /\ pc' = "login_goto"
                 /\ sessions <= attempt /\ sessions' = sessions + 1 ]_vars

C10_Witness ==
    /\ attempt = 1 /\ pc = "post_send_wait" /\ Phase(pc) = "Submitting"
    /\ outcome = << "exc" >> /\ clicked

\* C11 (as stated): the obligation click is a mandatory gate: once
\* open_obligation_isr has failed, the attempt is never in FillingIncomeSection,
\* FillingAdditionalSections, VerifyingTotals or Submitting.
C11_ObligationIsGate ==
    obligation = "failed" =>
        Phase(pc) \notin {"FillingIncomeSection", "FillingAdditionalSections",
                          "VerifyingTotals", "Submitting"}

\* C11 (amended): a failed obligation click is only logged as a warning: the
\* step in which open_obligation_isr returns False hands control to
\* fill_isr_ingresos_form, with nothing pending for the finally block.
C11_ObligationFailureContinues ==
    [][ (pc = "open_obligation_isr" /\ obligation' = "failed") =>
            (pc' = "fill_isr_ingresos_form" /\ pending' = "none") ]_vars

C11_Witness ==
    /\ obligation = "failed" /\ mode = "normal"
    /\ checked /\ gate.ok /\ clicked /\ Phase(pc) = "Submitting"

\* C12: for every pair (expected, observed) the decrease-disclosure decision
\* and the increase-disclosure decision of fill_isr_ingresos_form are never
\* both YES.
C12_NeverBothYes ==
    ingresos.ran => ~(ingresos.need_dis /\ ingresos.need_adic)

C12_Witness ==
    /\ ingresos.ran /\ ingresos.need_adic /\ ~ingresos.need_dis
    /\ ingresos.expected = Some(1008500) /\ ingresos.observed = Some(1000000)

\* C13: the decrease branch is answered YES exactly when observed - expected > 1
\* and the increase branch YES exactly when expected - observed > 1; when
\* |observed - expected| <= 1 both are NO (expected 1000.00 and observed 1000.40:
\* NO on both; observed 1008.50: YES on the decrease branch only).
C13_DecisionThresholds ==
    ingresos.ran =>
        LET d == OrZero(ingresos.observed) - OrZero(ingresos.expected)
        IN  /\ ingresos.need_dis <=> (d > IngresosScale)
            /\ ingresos.need_adic <=> (0 - d > IngresosScale)
            /\ Abs(d) <= IngresosScale => (~ingresos.need_dis /\ ~ingresos.need_adic)
            /\ (ingresos.expected = Some(1000000) /\ ingresos.observed = Some(1000400))
                   => (~ingresos.need_dis /\ ~ingresos.need_adic)
            /\ (ingresos.expected = Some(1000000) /\ ingresos.observed = Some(1008500))
                   => (ingresos.need_dis /\ ~ingresos.need_adic)

C13_Witness ==
    /\ ingresos.ran /\ ingresos.need_dis /\ ~ingresos.need_adic
    /\ ingresos.expected = Some(1000000) /\ ingresos.observed = Some(1008500)

\* the amount d with its fractional part dropped
Truncated(d) == (d \div IngresosScale) * IngresosScale

\* C14: when the decrease-disclosure branch fires, the amount entered in the
\* popup is the delta with its fractional part dropped: for every delta d > 1
\* the entered amount equals floor(d).
C14_DecreaseAmountTruncated ==
    (ingresos.ran /\ ~IsNone(ingresos.importe_dis)) =>
        Get(ingresos.importe_dis) =
            Truncated(OrZero(ingresos.observed) - OrZero(ingresos.expected))

\* C15: when the increase-disclosure branch fires, the amount entered in the
\* popup is the absolute delta as a whole number, the fractional part dropped.
C15_IncreaseAmountTruncated ==
    (ingresos.ran /\ ~IsNone(ingresos.importe_adic)) =>
        Get(ingresos.importe_adic) =
            Truncated(OrZero(ingresos.expected) - OrZero(ingresos.observed))

\* the selectors of the call under way (none when the key is not mapped)
Listed == IF IsNone(resolve.selectors) THEN << >> ELSE Get(resolve.selectors)

\* C16: _try_fill and _try_click try the selectors mapped to a key strictly in
\* list order and stop at the first that succeeds: a selector is tried only
\* after every earlier one failed, none is tried after a success, and with the
\* first absent and the second valid the action goes through the second only.
C16_ListOrderFirstSuccess ==
    LET t == resolve.tried
    IN  /\ \A k \in 1..Len(t) : t[k] = k
        /\ \A k \in 1..Len(t) : \A j \in 1..(k - 1) : Listed[j] # "acts"
        /\ Len(resolve.acted) <= 1
        /\ resolve.acted # << >> =>
               (resolve.acted[1] = t[Len(t)] /\ resolve.ret = "true")
        /\ ( /\ resolve.ret # "none" /\ Len(Listed) >= 2
             /\ Listed[1] = "absent" /\ Listed[2] = "acts" )
               => resolve.acted = << 2 >>

C16_Witness ==
    /\ resolve.ret = "true" /\ resolve.acted = << 2 >> /\ resolve.tried = << 1, 2 >>
    /\ Listed[1] = "absent" /\ Listed[2] = "acts"

\* C17: resolution failure is reported, never thrown: for any key, mapped or
\* not, and any failure of any selector, _try_fill and _try_click return False
\* when every selector failed, True when one succeeded, and never raise.
C17_ResolutionNeverRaises ==
    LET anyActs == \E j \in 1..Len(Listed) : Listed[j] = "acts"
    IN  /\ resolve.ret \in {"none", "true", "false"}
        /\ resolve.ret = "true" => anyActs
        /\ resolve.ret = "false" => ~anyActs
        /\ (resolve.fn # "none" /\ resolve.ret = "none") => resolve.i <= Len(Listed) + 1

C17_Witness ==
    /\ resolve.ret = "false" /\ Len(Listed) >= 2
    /\ \E j \in 1..Len(Listed) : Listed[j] = "raises"

\* C18: in every test mode the run never reaches VerifyingTotals or Submitting
\* and check_totals and send_declaration are never invoked; test_login stops
\* after LoggingIn, test_initial_form after ConfiguringPeriod, test_full and
\* test_phase3 after the fill of the income (ISR) section.
C18_TestModesStopEarly ==
    mode # "normal" =>
        /\ ~checked /\ ~gate.ran /\ ~clicked /\ submits = 0
        /\ Phase(pc) \notin {"VerifyingTotals", "Submitting"}
        /\ pc # "fill_iva_section"
        /\ mode = "test_login" => Phase(pc) \in {"LoggedOut", "LoggingIn", "Teardown"}
        /\ mode = "test_initial_form" =>
               Phase(pc) \in {"LoggedOut", "LoggingIn", "ConfiguringPeriod", "Teardown"}

C18_Witness ==
    /\ mode = "test_phase3" /\ exitKind = "returned" /\ result = Some(TRUE)
    /\ outcome = << "true" >> /\ ~checked /\ submits = 0

\* some operation on the page failed in the run so far: an exception ended an
\* attempt, the obligation click failed, or the submit control was not clicked
UiFailed ==
    \/ pending = "exc"
    \/ \E k \in 1..Len(outcome) : outcome[k] = "exc"
    \/ obligation = "failed"
    \/ pc \in TeardownSteps \cup {"done"} /\ gate.ok /\ ~clicked

\* the summary page shows the workbook's ISR, IVA and their sum within tolerance
TotalsAgree ==
    /\ Abs(OrZero(disp_isr) - OrZero(label_isr)) <= tolerance * Scale
    /\ Abs(OrZero(disp_iva) - OrZero(label_iva)) <= tolerance * Scale
    /\ Abs(OrZero(disp_total) - (OrZero(label_isr) + OrZero(label_iva))) <= tolerance * Scale

\* a normal run with its prerequisites, no interrupt, no failed page operation
\* and, once the totals have been read, totals that agree
CleanRun ==
    /\ mode = "normal" /\ missing = {}
    /\ exitKind \in {"running", "returned"}
    /\ ~UiFailed
    /\ checked => TotalsAgree

\* run() returned True from its first attempt, having clicked the submit control
FirstAttemptSuccess ==
    /\ exitKind = "returned" /\ result = Some(TRUE)
    /\ attempt = 0 /\ sleeps = 0 /\ outcome = << "true" >>
    /\ checked /\ gate.ok /\ clicked /\ submits = 1

\* C19: if no UI operation fails and the observed remote totals equal the
\* expected ISR and IVA within tolerance, the normal run eventually reaches
\* Submitting on its first attempt and returns success with no retry: a run
\* either leaves the clean case or ends in that success.
C19_CleanRunSubmits == <>(~CleanRun \/ FirstAttemptSuccess)

C19_Witness ==
    /\ CleanRun /\ FirstAttemptSuccess
    /\ label_isr = Some(12000) /\ label_iva = Some(3000)

\* C20: every run terminates: run() returns, is left by an exception or the
\* process exits, whatever the remote UI does.
C20_RunTerminates == <>(exitKind # "running")

C20_Witness ==
    /\ exitKind = "returned" /\ result = Some(FALSE)
    /\ attempt = 1 /\ sleeps = 1 /\ outcome = << "exc", "exc" >>

\* C21: when no draft marker is seen during the probe, dismiss_draft_if_present
\* does not enter the detour: it returns False without clicking a delete or a
\* confirm control and without any wait beyond the probe.
C21_NoMarkerNoDetour ==
    (draft.ran /\ draft.ret # "raised" /\ \A k \in 1..Len(draft.obs) : draft.obs[k] # "marker") =>
        /\ draft.ret = "false" /\ ~draft.found
        /\ draft.trash = "none" /\ ~draft.confirm
        /\ draft.waits = 0 /\ draft.polls <= MaxPolls

C21_Witness ==
    /\ draft.ran /\ draft.ret = "false" /\ draft.obs = << "clean", "unreadable" >>
    /\ draft.lookups[1] = "row" /\ draft.trash = "none" /\ draft.waits = 0

\* C22: when a draft is present, the delete control dismiss_draft_if_present
\* clicks lies inside the draft's own row; it never clicks the first
\* delete-like control of a larger container or of the whole document.
C22_TrashInDraftRow ==
    draft.ran => draft.trash \in {"none", "row"}

\* position of a dropdown in the order fiscal year, periodicity, period, type
DropdownRank(d) ==
    CASE d = "ejercicio" -> 1 [] d = "periodicidad" -> 2 [] d = "periodo" -> 3 [] OTHER -> 4

\* C23: fill_initial_form attempts the configuration dropdowns strictly in the
\* order fiscal year, periodicity, period, declaration type: a dropdown is
\* attempted only after every earlier one was attempted (or skipped for want
\* of its value), and a dropdown set successfully is not attempted again.
C23_DropdownOrder ==
    LET a == initial.attempts
    IN  /\ \A i \in 1..Len(a) : \A j \in (i + 1)..Len(a) :
               /\ DropdownRank(a[i].d) <= DropdownRank(a[j].d)
               /\ a[i].d = a[j].d => ~a[i].ok
        /\ \A j \in 1..Len(a) : \A d \in {"ejercicio", "periodicidad", "periodo"} :
               DropdownRank(d) < DropdownRank(a[j].d) =>
                   \/ \E i \in 1..(j - 1) : a[i].d = d
                   \/ d = "ejercicio" /\ IsNone(initial.year)
                   \/ d = "periodo" /\ IsNone(initial.month)

C23_Witness ==
    /\ initial.ret = "returned" /\ Len(initial.attempts) = 5
    /\ initial.attempts[1].d = "ejercicio" /\ initial.attempts[2].d = "periodicidad"
    /\ initial.attempts[3].d = "periodo" /\ ~initial.attempts[3].ok
    /\ initial.attempts[4].d = "periodo" /\ initial.attempts[4].ok
    /\ initial.attempts[5].d = "tipo"

\* C30: fill_initial_form skips the fiscal-year fill exactly when year is
\* absent and the period fill exactly when month is absent; the periodicity
\* and declaration-type fills are attempted in every case, and an absent year
\* or month never aborts the phase (only a page call that raises does).
C30_AbsentPeriodSkipped ==
    LET a == initial.attempts
        tried(d) == \E i \in 1..Len(a) : a[i].d = d
    IN  /\ tried("ejercicio") => ~IsNone(initial.year)
        /\ tried("periodo") => ~IsNone(initial.month)
        /\ initial.ret = "returned" =>
               /\ tried("ejercicio") <=> ~IsNone(initial.year)
               /\ tried("periodo") <=> ~IsNone(initial.month)
               /\ tried("periodicidad") /\ tried("tipo")
        /\ initial.ret = "raised" => initial.fault

C30_Witness ==
    /\ initial.ret = "returned" /\ IsNone(initial.year) /\ IsNone(initial.month)
    /\ Len(initial.attempts) = 2
    /\ initial.attempts[1].d = "periodicidad" /\ initial.attempts[2].d = "tipo"

\* the labels of the list whose value is present and not exactly zero
Fillable(k) == ~IsNone(section.values[k]) /\ Get(section.values[k]) # 0

\* C25: fill_obligation_section attempts a fill for a label exactly when the
\* external value for that label is present and not exactly zero; labels whose
\* value is absent or exactly zero are skipped, never zero-filled, and the
\* labels are processed in list order.
C25_SkipAbsentAndZero ==
    LET a == section.attempted
    IN  /\ \A i \in 1..Len(a) : Fillable(a[i]) /\ section.filled[i] = Get(section.values[a[i]])
        /\ \A i \in 1..Len(a) : \A j \in (i + 1)..Len(a) : a[i] < a[j]
        /\ \A i \in 1..Len(section.filled) : section.filled[i] # 0
        /\ section.ret \in {"none", "returned"} =>
               \A k \in 1..Len(section.values) :
                   (k < section.i /\ Fillable(k)) => \E i \in 1..Len(a) : a[i] = k
        /\ section.ret = "returned" => section.i = Len(section.values) + 1

C25_Witness ==
    /\ section.ret = "returned"
    /\ section.values = << None, Some(5000), Some(0) >>
    /\ section.attempted = << 2 >> /\ section.filled = << 5000 >>

\* C24: in every run of fill_isr_ingresos_form the copropiedad discount field
\* of the Descuentos popup is filled with 0, whatever the external value set
\* contains and whatever the outcome of the two disclosure decisions.
C24_DescuentosZeroFilled ==
    (isr_form.ran /\ ~IsNone(isr_form.descuentos_filled)) =>
        Get(isr_form.descuentos_filled) = 0

\* C26 (as stated): the expected total comes from the chain of four labels; a
\* later label is used when the primary label is absent or resolves to zero;
\* with no label present the expected total is 0.
C26_ChainOnAbsentOrZero ==
    isr_form.ran =>
        LET c == isr_form.cells
        IN  /\ ((IsNone(c[1]) \/ c[1] = Some(0)) /\ \E k \in 2..4 : ~IsNone(c[k]))
                   => isr_form.used_key \in 2..4 \/ isr_form.label_map[1] # c[1]
            /\ (\A k \in 1..4 : IsNone(c[k])) => isr_form.expected = 0

\* C26 (amended): the expected total of the two disclosure decisions is the
\* value of the first label of the chain that is present, a present 0.0
\* included; a later label is used only when every earlier one is absent. The
\* one replacement of a zero is made by read_impuestos: a primary value that
\* was resolved through a formula reference to 0.0 takes a nonzero value of
\* the second label. With no label present the expected total is 0.
C26_ChainOnAbsentOnly ==
    isr_form.ran =>
        LET c == isr_form.cells
            v == isr_form.label_map
            u == isr_form.used_key
        IN  /\ \A k \in 2..4 : v[k] = c[k]
            /\ v[1] # c[1] =>
                  /\ isr_form.from_formula /\ c[1] = Some(0)
                  /\ ~IsNone(c[2]) /\ c[2] # Some(0) /\ v[1] = c[2]
            /\ (~isr_form.from_formula /\ c[1] = Some(0)) => (u = 1 /\ isr_form.expected = 0)
            /\ u = 0 <=> \A k \in 1..4 : IsNone(c[k])
            /\ u = 0 => isr_form.expected = 0
            /\ u # 0 => /\ ~IsNone(v[u]) /\ isr_form.expected = Get(v[u])
                         /\ \A j \in 1..(u - 1) : IsNone(c[j])
            /\ ingresos.expected = Some(isr_form.expected)

C26_Witness ==
    /\ isr_form.ran /\ ~isr_form.from_formula
    /\ isr_form.cells = << Some(0), Some(1001500), Some(1008500), None >>
    /\ isr_form.used_key = 1 /\ isr_form.expected = 0
    /\ ingresos.observed = Some(1008500) /\ ingresos.need_dis

\* C27: the dropdown-set primitive tries select by value, then select by
\* label, then opening the control and clicking the option, in this order,
\* and whenever that open-and-click step fails (the control does not open,
\* the option is not found, or the click on it fails) it tries select by
\* value once more before it reports failure.
StepRank(s) ==
    CASE s = "visible" -> 0
      [] s = "select_value" -> 1
      [] s = "select_label" -> 2
      [] s = "open" -> 3
      [] s = "find_option" -> 4
      [] OTHER -> 5

OpenAndClickSteps == {"open", "find_option", "click_option"}

C27_RetryOnAnyOpenClickFailure ==
    dropdown.calls >= 1 =>
        LET t == dropdown.trace IN
        /\ \A i \in DOMAIN t : \A j \in DOMAIN t :
              (i < j /\ t[j].step \in OpenAndClickSteps) =>
                  StepRank(t[i].step) < StepRank(t[j].step)
        /\ \A i \in DOMAIN t :
              (t[i].step \in OpenAndClickSteps /\ ~t[i].ok) =>
                  \E j \in DOMAIN t : j > i /\ t[j].step = "select_value"

\* C28: a call of _fill_select_next_to_label for a value on a control that
\* is already set to that value leaves the selected option of that control
\* as it was and changes no other control, and so does a second call with
\* the same value; when the first call returned success, the second one
\* returns success too.
correctly_set(c, v) ==
    IF opt_by_value(c.options, v) # 0
    THEN c.selected = opt_by_value(c.options, v)
    ELSE /\ opt_by_text(c.options, v) # 0
         /\ c.selected = opt_by_text(c.options, v)
         /\ opt_by_label(c.options, v) \in {0, c.selected}

AlreadySet ==
    /\ dropdown.calls >= 1
    /\ dropdown.resolved # 0
    /\ correctly_set(dropdown.initial[dropdown.resolved], dropdown.value_str)

C29_CerFirstKeySecond ==
    files.ran =>
        /\ \A i \in DOMAIN files.assigned :
              /\ files.assigned[i].file = "cer" => files.assigned[i].input = 1
              /\ files.assigned[i].file = "key" => files.assigned[i].input = 2
        /\ (files.n >= 2 /\ ~(files.cer_input_ok /\ files.key_input_ok)) =>
              files.fallback

\* C31: when the container holds more than one CAPTURAR,
\* _click_capturar_next_to_label clicks only one whose row contains the target
\* label and is not the question row; whatever the page, it never clicks a
\* CAPTURAR that sits in the question row.
C31_NeverQuestionRow ==
    (capclick.ran /\ capclick.clicked_row # 0) =>
        /\ capclick.several =>
              /\ capclick.rows[capclick.clicked_row].label
              /\ ~capclick.rows[capclick.clicked_row].question
        /\ ~capclick.rows[capclick.clicked_row].question

\* C32: over one run the submit control is clicked at most once: after an
\* attempt in which the submit click succeeded no cooling-off delay is taken
\* and no further attempt is started, whatever fails later in that attempt.
C32_SubmitAtMostOnce ==
    [][ /\ clicked => pc' # "sleep"
        /\ submits' <= 1 ]_vars

\* C33: a browser is launched only when nothing of an earlier session is
\* open; the cooling-off delay begins, and run() returns, only with every
\* opened session logged out and nothing open; within a session the logout
\* comes before context.close() and context.close() before browser.close().
C33_OneSessionAtATime ==
    [][ /\ launches' > launches => open = {}
        /\ pc' = "sleep" => (open' = {} /\ logouts' = sessions')
        /\ exitKind' = "returned" => (open' = {} /\ logouts' = sessions')
        /\ ctxCloses' > ctxCloses => (logouts = sessions /\ ctxCloses = sessions - 1)
        /\ brCloses' > brCloses =>
              (ctxCloses = sessions /\ "context" \notin open /\ brCloses < sessions) ]_vars

C33_Witness ==
    /\ mode = "normal" /\ attempt = 1 /\ launches = 2 /\ sessions = 2
    /\ open = {"browser", "context", "page"}
    /\ logouts = 1 /\ ctxCloses = 1 /\ brCloses = 0 /\ sleeps = 1

\* C34: in the normal flow run() returns success only after an attempt in
\* which check_totals returned ok and the submit click succeeded; when the
\* submit click finds no control the attempt's "return False" stands: no
\* exception takes its place and no retry follows.
C34_SubmitFailureNoRetry ==
    [][ /\ (mode = "normal" /\ result' = Some(TRUE)) =>
              (checked /\ gate.ok /\ clicked)
        /\ (mode = "normal" /\ checked /\ gate.ok /\ ~clicked /\ pending = "false") =>
              (pending' # "exc" /\ pc' # "sleep") ]_vars

\* C35: in the decrease popup and in the increase popup alike GUARDAR is
\* clicked only when the concept was selected and the amount was entered in
\* that popup; when either step failed nothing is committed.
C35_GuardarOnlyWhenBothFilled ==
    (disclosure.ran /\ disclosure.guardar = "clicked") =>
        (disclosure.concepto # "none" /\ disclosure.importe # "none")

\* C38: login_sat returns normally only after the authenticated URL was
\* observed; when the poll's time budget runs out without it, login_sat
\* raises and the attempt fails.
C38_ReturnsOnlyAuthenticated ==
    postlogin.pc = "returned" => postlogin.seen # "none"

\* the chain of references that starts at cell c never leaves "ref" cells
RECURSIVE RefsForever(_, _, _)
RefsForever(sheet, c, k) ==
    IF sheet[c].kind # "ref" THEN FALSE
    ELSE IF k = 0 THEN TRUE
    ELSE RefsForever(sheet, sheet[c].to, k - 1)

OnCycle == cellres.on /\ RefsForever(cellres.sheet, cellres.start, MaxCells)

\* C39: for every reference graph the resolution of a formula reference ends;
\* it reads each cell at most once, makes at most one call more than there
\* are cells, never runs into the recursion limit, and a reference cycle (a
\* cell that refers to itself included) resolves to 0.0.
C39_ResolutionTerminates ==
    /\ [](cellres.on =>
            /\ \A c \in 1..MaxCells : cellres.reads[c] <= 1
            /\ cellres.depth <= MaxCells + 1
            /\ cellres.done # "RecursionError"
            /\ (cellres.done = "returned" /\ OnCycle) => cellres.val = << 0 >>)
    /\ (cellres.on ~> cellres.done = "returned")

C39_Witness ==
    /\ OnCycle /\ cellres.done = "returned" /\ cellres.val = << 0 >>
    /\ cellres.sheet[cellres.start].to # cellres.start
    /\ Cardinality(cellres.visited) >= 2

\* C40: in every interleaving of the caller and the builder thread
\* _xlcalculator_evaluator returns (evaluator, None) or (None, message), never
\* both or neither; the two lists are never both filled; when the thread is
\* still alive after the join the pair returned is (None, "timeout"), and
\* nothing the thread appends later changes the pair that was returned or
\* reaches _evaluate_cell.
C40_EvaluatorOrMessage ==
    /\ [](/\ ~(xlcalc.result # << >> /\ xlcalc.err # << >>)
          /\ xlcalc.used > 0 => xlcalc.ret = << "evaluator", "None" >>
          /\ xlcalc.main = "returned" =>
                \/ xlcalc.ret = << "evaluator", "None" >>
                \/ (xlcalc.ret # << >> /\ xlcalc.ret[1] = "None" /\ xlcalc.ret[2] # "None"))
    /\ [][ /\ (xlcalc.main = "after_join" /\ xlcalc.thr \notin {"unborn", "dead"}
                  /\ xlcalc'.main = "returned")
               => xlcalc'.ret = << "None", "timeout" >>
           /\ xlcalc.main = "returned" => xlcalc'.ret = xlcalc.ret ]_vars

C40_Witness ==
    /\ xlcalc.main = "returned" /\ xlcalc.ret = << "None", "timeout" >>
    /\ xlcalc.result = << "evaluator" >> /\ xlcalc.thr = "dead"
    /\ xlcalc.cells > 0 /\ xlcalc.used = 0

\* C36: when 'Total de ingresos efectivamente cobrados' could not be read from
\* the page, neither disclosure question is answered "Si" and no corrective
\* amount is entered: the failed read does not count as an observed 0.
C36_UnreadTotalNoDisclosure ==
    (ingresos.ran /\ IsNone(ingresos.observed)) =>
        /\ ~ingresos.need_dis /\ ~ingresos.need_adic
        /\ IsNone(ingresos.importe_dis) /\ IsNone(ingresos.importe_adic)

\* C37: check_totals returns ok only when the ISR figure, the IVA figure and
\* the total were each read from the summary page; a figure that was not
\* read makes the gate fail.
C37_OkOnlyWhenAllRead ==
    (gate.ran /\ gate.ok) =>
        (~IsNone(disp_isr) /\ ~IsNone(disp_iva) /\ ~IsNone(disp_total))

====
